---- MODULE Spec2Model ----
(***************************************************************************)
(* A model of the core of the cdk mint: the in-memory mint database with   *)
(* its transactional writer (cdk/src/cdk_database/mint_memory.rs) and the  *)
(* in-memory signatory (cdk-signatory/src/lib.rs), with the methods of     *)
(* the Mint over them (cdk/src/mint/mod.rs).                               *)
(*                                                                         *)
(* Spec           the database under transactions (writers) with the lock  *)
(*                table of the AccessManager.                              *)
(* ReaderSpec     Spec with a task that reads outside any transaction.     *)
(* SignatorySpec  the signatory over the database's keyset tables.         *)
(* VerifySpec     the signatory constructed, rotated and verifying proofs. *)
(* ColdStartSpec  the signatory constructed repeatedly and rotated.        *)
(* KeysetSpec     the signatory constructed, rotated and listing keysets.  *)
(* ManagerSpec    the signatory called through a SignatoryManager.         *)
(* ManagerFairSpec  ManagerSpec with the runtime scheduling ready tasks.   *)
(* ManagerDropSpec  ManagerSpec with the manager dropped at any time.      *)
(* ManagerDropFairSpec  ManagerDropSpec with the runtime's scheduling.     *)
(* SettleSpec     Mint::handle_internal_melt_mint beside transactions.     *)
(* RestoreSpec    Mint::restore beside transactions adding signatures.     *)
(* TotalsSpec     Mint::total_issued and total_redeemed over a database    *)
(*                made by MintMemoryDatabase::new, beside other calls.     *)
(* ProofStateSpec the proof states under transactions and direct updates.  *)
(* SwapSpec       two swap requests spending the same proofs.              *)
(* WatcherFairSpec  Mint::wait_for_paid_invoices and its shutdown, with    *)
(*                the runtime polling the ready branches.                  *)
(* LockFairSpec   transactions waiting for locks, with the runtime's       *)
(*                scheduling.                                              *)
(* QuoteStateSpec handle_internal_melt_mint beside payment notifications   *)
(*                and issuances.                                           *)
(* MeltSpec       two melt requests in handle_internal_melt_mint at once.  *)
(* RotationSpec   two rotate_keyset calls at once, in their storage calls. *)
(* KeysetInfoSpec the signatory constructed, rotated and asked for infos.  *)
(*                                                                         *)
(* Record constructors list their fields in the order in which the field   *)
(* names first occur in this module, the order TLC keeps them in.          *)
(***************************************************************************)
EXTENDS Integers, Sequences, FiniteSets, TLC

(* ------------------------------ bounds -------------------------------- *)

\* Number of begin_transaction() calls explored.
MaxWriters == 2
\* Number of transactional operations called in a run, over all writers.
MaxOps == 2

\* Number of calls made to the signatory in a run, after its first construction.
MaxCalls == 2

\* Capacity of the SignatoryManager's request queue in a run (the program's is
\* 10_000), and the number of submissions made while the queue is full.
ChannelCapacity == 2
MaxRefused == 1

\* Writer ids are the values writer_index takes.
Writers == 0 .. (MaxWriters - 1)
\* The quote ids (Uuid) of mint and melt quotes, the blinded messages (B_) and the
\* proofs (Y) the operations are called with.
Uuids == {1}
BlindedMessages == {1}
Ys == {1}
\* The units, and the values the signatory is configured and called with.
Units == {"sat", "usd"}
Fees == {1, 2}
Orders == {1, 2}
Indexes == {0, 1}
Amounts == {1, 2, 3}
BlindedSecrets == {1}
\* The one custom derivation path used, and the units it may be configured for.
CustomPath == << 1, 0, 0 >>
CustomUnits == {"sat"}
\* The units the signatory may be constructed for; the others are only rotated.
ConfiguredUnits == {"sat"}

(* ------------------------------ values -------------------------------- *)

\* Option<T>: None is the empty sequence, Some(x) the one-element sequence.
None == << >>
Some(x) == << x >>

\* HashMap<K, V> as a function with a finite domain.
EmptyMap == [k \in {} |-> k]
MapGet(map, k) == IF k \in DOMAIN map THEN Some(map[k]) ELSE None
MapInsert(map, k, v) == [x \in (DOMAIN map) \cup {k} |-> IF x = k THEN v ELSE map[x]]
MapValues(map) == {map[k] : k \in DOMAIN map}

MintQuoteState == {"Unpaid", "Paid", "Pending", "Issued"}
MeltQuoteState == {"Unpaid", "Paid", "Pending", "Unknown", "Failed"}
State == {"Pending", "Spent", "Unspent", "Reserved"}

\* The states the model's update operations are called with.
MintQuoteInputs == {"Paid", "Issued"}
MeltQuoteInputs == {"Pending"}
StateInputs == {"Spent"}

AnyId_MintQuote(uuid) == << "MintQuote", uuid >>
AnyId_MeltQuote(uuid) == << "MeltQuote", uuid >>
AnyId_BlindSignature(pubkey) == << "BlindSignature", pubkey >>

\* A quote's request and request_lookup_id are unique to it in this model.
NewMintQuote(uuid) ==
    [id |-> uuid, request |-> uuid, request_lookup_id |-> uuid, state |-> "Unpaid"]
NewMeltQuote(uuid) == [id |-> uuid, request |-> uuid, state |-> "Unpaid"]
NewMeltRequest(uuid) == [quote |-> uuid]
NewProof(y) == [y |-> y, keyset_id |-> 1, amount |-> 1]
NewBlindSignature(b) == [keyset_id |-> 1, amount |-> 1, c |-> b]

NoOp == [name |-> "none", ids |-> << >>, result |-> None]

(* ------------------------------ state --------------------------------- *)

VARIABLES
    \* MemoryStorage (inner): the canonical store
    active_keysets, keysets, mint_quotes, melt_quotes, proofs, proof_state,
    quote_proofs, blinded_signatures, quote_signatures, melt_requests,
    \* AccessManager: HashMap<AnyId, u64>
    locks,
    \* MintMemoryDatabase.writer_index
    writer_index,
    \* per MintMemoryWriter: position, change set, call in progress
    pc, changes, op,
    \* number of transactional operations called so far
    nops,
    \* history: what non-transactional reads returned when the first writer began
    snapshot,
    \* the non-transactional reader task: position, call in progress
    rpc, rop,
    \* MemorySignatory.keysets: the cache of derived keysets, HashMap<Id, MintKeySet>
    signatory_keysets,
    \* number of signatory calls so far, and the last call with its result
    scalls, sresult,
    \* history: per unit, the active keyset before and after its last rotate_keyset
    last_rotation,
    \* SignatoryManager.pipeline: the requests in the mpsc channel, oldest first
    pipeline,
    \* the tasks the runner has spawned, one per request taken from the channel
    spawned,
    \* SignatoryManager.runner: the background task
    runner,
    \* per request, in the order of submission: what its caller has got
    callers,
    \* history, per request: the signatory's state when it was submitted, whether
    \* no other request was in the manager since then, and the outputs of its calls
    issued,
    \* the task that runs a method of Mint: the method, its position, its inputs,
    \* the transaction it has begun and what it returns
    mint_task,
    \* two swap requests: per request its position, its transaction and its result
    swaps,
    \* the invoice watcher of wait_for_paid_invoices and the shutdown notification
    watcher,
    \* two melt requests in handle_internal_melt_mint at the same time: per request
    \* its position, its transaction, what it wrote and its result
    melts,
    \* two calls of rotate_keyset at the same time: per call, the keyset and info
    \* it has created and stored but not yet made active
    rotating

inner_vars == << active_keysets, keysets, mint_quotes, melt_quotes, proofs, proof_state,
                 quote_proofs, blinded_signatures, quote_signatures, melt_requests >>
keyset_vars == << active_keysets, keysets >>
writer_vars == << locks, writer_index, pc, changes, op, nops, snapshot >>
reader_vars == << rpc, rop >>
signatory_vars == << signatory_keysets, scalls, sresult, last_rotation >>
manager_vars == << pipeline, spawned, runner, callers, issued >>
mint_vars == << mint_task, swaps, watcher, melts, rotating >>
vars == << inner_vars, writer_vars, reader_vars, signatory_vars, manager_vars, mint_vars >>

\* Non-transactional reads that take no lock-table access: plain reads of the store.
db_get_mint_quotes == MapValues(mint_quotes)
db_get_melt_quote(quote_id) == MapGet(melt_quotes, quote_id)
db_get_proofs_by_ys(ys) == [i \in 1 .. Len(ys) |-> MapGet(proofs, ys[i])]
db_get_proofs_states(ys) == [i \in 1 .. Len(ys) |-> MapGet(proof_state, ys[i])]
db_get_proof_ys_by_quote_id(quote_id) ==
    IF quote_id \in DOMAIN quote_proofs THEN quote_proofs[quote_id] ELSE << >>
db_get_blind_signatures_for_quote(quote_id) ==
    IF quote_id \in DOMAIN quote_signatures THEN quote_signatures[quote_id] ELSE << >>

\* What the non-transactional reads return in the current state, for every argument.
\* get_mint_quote and get_blind_signatures return the stored value once access()
\* lets them through.
ReadView ==
    << db_get_mint_quotes,
       [u \in Uuids |-> MapGet(mint_quotes, u)],
       [u \in Uuids |-> db_get_melt_quote(u)],
       [y \in Ys |-> db_get_proofs_by_ys(<< y >>)],
       [y \in Ys |-> db_get_proofs_states(<< y >>)],
       [b \in BlindedMessages |-> MapGet(blinded_signatures, b)],
       [u \in Uuids |-> db_get_blind_signatures_for_quote(u)],
       [u \in Uuids |-> db_get_proof_ys_by_quote_id(u)] >>

EmptyChanges == [mint_quotes |-> EmptyMap, blinded_signatures |-> EmptyMap]

\* MintMemoryDatabase::new: the store is built from the lists it is given.
DbInit ==
    /\ active_keysets = EmptyMap
    /\ keysets = EmptyMap
    /\ mint_quotes = [u \in Uuids |-> NewMintQuote(u)]
    /\ melt_quotes = [u \in Uuids |-> NewMeltQuote(u)]
    /\ proofs = EmptyMap
    /\ proof_state = EmptyMap
    /\ quote_proofs = EmptyMap
    /\ blinded_signatures = EmptyMap
    /\ quote_signatures = EmptyMap
    /\ melt_requests = [u \in Uuids |-> NewMeltRequest(u)]
    /\ locks = EmptyMap
    /\ writer_index = 0
    /\ pc = [w \in Writers |-> "unborn"]
    /\ changes = [w \in Writers |-> EmptyChanges]
    /\ op = [w \in Writers |-> NoOp]
    /\ nops = 0
    /\ snapshot = << >>

ReaderInit ==
    /\ rpc = "idle"
    /\ rop = NoOp

\* The signatory before MemorySignatory::new.
NoCall == [name |-> "none", result |-> << >>, args |-> << >>]

SignatoryInit ==
    /\ signatory_keysets = EmptyMap
    /\ scalls = 0
    /\ sresult = NoCall
    /\ last_rotation = [u \in Units |-> None]

\* Before SignatoryManager::new.
ManagerInit ==
    /\ pipeline = << >>
    /\ spawned = {}
    /\ runner = "none"
    /\ callers = << >>
    /\ issued = << >>

\* No method of Mint has been called.
NoTask == [name |-> "none", result |-> None, pc |-> "idle", w |-> None, args |-> << >>]

\* No swap request has been made.
NoSwap == [result |-> None, pc |-> "idle", w |-> None]

\* No melt request has called handle_internal_melt_mint.
NoMelt == [result |-> None, pc |-> "idle", w |-> None, args |-> << >>]

\* The Lightning backends of the mint (Mint.ln).
Backends == {1, 2}

\* wait_for_paid_invoices has not been called and nobody has notified shutdown.
\* pc: per backend, where its watcher task is ("none": no task). shutdown: how the
\* Notify was notified. notified: the watchers whose Notified future was woken.
\* permit: the permit notify_one leaves when nobody waits. cancelled: the
\* backends whose cancel_wait_invoice was called.
NoWatcher ==
    [pc |-> [b \in Backends |-> "none"],
     shutdown |-> "none",
     notified |-> [b \in Backends |-> FALSE],
     permit |-> FALSE,
     cancelled |-> [b \in Backends |-> FALSE],
     called |-> FALSE,
     returned |-> FALSE]

MintInit ==
    /\ mint_task = NoTask
    /\ swaps = [s \in 1 .. 2 |-> NoSwap]
    /\ watcher = NoWatcher
    /\ melts = [m \in 1 .. 2 |-> NoMelt]
    /\ rotating = [r \in 1 .. 2 |-> None]

Init == DbInit /\ ReaderInit /\ SignatoryInit /\ ManagerInit /\ MintInit

(* --------------------------- AccessManager ---------------------------- *)

\* One passage of lock()'s loop that leaves it: the id is free and is claimed,
\* or it is already held by this writer. Otherwise the caller sleeps and retries.
lock_not_reentrant(resource_id, writer_id) ==
    /\ resource_id \notin DOMAIN locks
    /\ locks' = MapInsert(locks, resource_id, writer_id)

lock_steals(resource_id, writer_id) ==
    locks' = MapInsert(locks, resource_id, writer_id)

lock(resource_id, writer_id) ==
    /\ resource_id \in DOMAIN locks => locks[resource_id] = writer_id
    /\ locks' = MapInsert(locks, resource_id, writer_id)

\* access() leaves its loop when the id has no holder; it records nothing.
access(resource_id) == resource_id \notin DOMAIN locks

release(writer_id) ==
    locks' = [i \in {j \in DOMAIN locks : locks[j] # writer_id} |-> locks[i]]

(* --------------------------- transactions ----------------------------- *)

begin_transaction ==
    /\ writer_index < MaxWriters
    /\ pc[writer_index] = "unborn"
    /\ pc' = [pc EXCEPT ![writer_index] = "idle"]
    /\ writer_index' = writer_index + 1
    /\ snapshot' = IF writer_index = 0 THEN ReadView ELSE snapshot
    /\ UNCHANGED << inner_vars, locks, changes, op, nops, reader_vars, signatory_vars, manager_vars >>

\* A transactional operation is called on a writer that is between operations.
Called(w) ==
    /\ pc[w] = "idle"
    /\ nops < MaxOps
    /\ nops' = nops + 1

\* The value a transaction sees for a mint quote: its change set, then the store.
writer_read_mint_quote(w, quote_id) ==
    IF quote_id \in DOMAIN changes[w].mint_quotes
    THEN Some(changes[w].mint_quotes[quote_id])
    ELSE MapGet(mint_quotes, quote_id)

\* Returns Ok(writer_read_mint_quote(w, quote_id)).
get_mint_quote(w, quote_id) ==
    /\ Called(w)
    /\ lock(AnyId_MintQuote(quote_id), w)
    /\ UNCHANGED << inner_vars, writer_index, snapshot, pc, changes, op, reader_vars, signatory_vars, manager_vars >>

add_mint_quote(w, quote) ==
    /\ Called(w)
    /\ lock(AnyId_MintQuote(quote.id), w)
    /\ changes' = [changes EXCEPT ![w].mint_quotes = MapInsert(@, quote.id, quote)]
    /\ UNCHANGED << inner_vars, writer_index, snapshot, pc, op, reader_vars, signatory_vars, manager_vars >>

\* A getter that reads the store first and then locks what it found: the call
\* captures the result and the ids to lock; lock_wait_step takes the locks one
\* by one, in order, and the getter returns Ok(result) after the last.
ReadThenLock(w, name, ids, result) ==
    /\ pc' = [pc EXCEPT ![w] = "lock_wait"]
    /\ op' = [op EXCEPT ![w] = [name |-> name, ids |-> ids, result |-> result]]

lock_wait_step(w) ==
    /\ pc[w] = "lock_wait"
    /\ lock(Head(op[w].ids), w)
    /\ IF Len(op[w].ids) = 1
       THEN /\ pc' = [pc EXCEPT ![w] = "idle"]
            /\ op' = [op EXCEPT ![w] = NoOp]
       ELSE /\ op' = [op EXCEPT ![w].ids = Tail(@)]
            /\ UNCHANGED pc
    /\ UNCHANGED << inner_vars, writer_index, snapshot, changes, nops, reader_vars, signatory_vars, manager_vars >>

\* .values().filter(..).next(): requests are unique, so at most one quote matches.
find_mint_quote_by_request(request) ==
    LET found == {q \in MapValues(mint_quotes) : q.request = request}
    IN  IF found = {} THEN None ELSE Some(CHOOSE q \in found : TRUE)

find_mint_quote_by_request_lookup_id(request) ==
    LET found == {q \in MapValues(mint_quotes) : q.request_lookup_id = request}
    IN  IF found = {} THEN None ELSE Some(CHOOSE q \in found : TRUE)

get_mint_quote_by_request_lookup_id(w, request) ==
    /\ Called(w)
    /\ LET result == find_mint_quote_by_request_lookup_id(request)
       IN  IF result = None
           THEN UNCHANGED << pc, op >>
           ELSE ReadThenLock(w, "get_mint_quote_by_request_lookup_id",
                             << AnyId_MintQuote(result[1].id) >>, result)
    /\ UNCHANGED << inner_vars, locks, writer_index, snapshot, changes, reader_vars, signatory_vars, manager_vars >>

get_mint_quote_by_request(w, request) ==
    /\ Called(w)
    /\ LET result == find_mint_quote_by_request(request)
       IN  IF result = None
           THEN UNCHANGED << pc, op >>
           ELSE ReadThenLock(w, "get_mint_quote_by_request",
                             << AnyId_MintQuote(result[1].id) >>, result)
    /\ UNCHANGED << inner_vars, locks, writer_index, snapshot, changes, reader_vars, signatory_vars, manager_vars >>

\* Calls get_mint_quote (which locks), then buffers the quote with its new state;
\* Err(UnknownQuote) when the quote is neither buffered nor stored.
update_mint_quote_state(w, quote_id, state) ==
    /\ Called(w)
    /\ lock(AnyId_MintQuote(quote_id), w)
    /\ LET quote == writer_read_mint_quote(w, quote_id)
       IN  IF quote = None
           THEN UNCHANGED changes
           ELSE changes' = [changes EXCEPT ![w].mint_quotes =
                               MapInsert(@, quote_id, [quote[1] EXCEPT !.state = state])]
    /\ UNCHANGED << inner_vars, writer_index, snapshot, pc, op, reader_vars, signatory_vars, manager_vars >>

\* map.insert(k[i], v[i]) for the zipped pairs, in order.
RECURSIVE InsertAll(_, _, _)
InsertAll(map, ks, vs) ==
    IF ks = << >> \/ vs = << >> THEN map
    ELSE InsertAll(MapInsert(map, Head(ks), Head(vs)), Tail(ks), Tail(vs))

add_blind_signatures(w, blinded_message, blind_signatures, quote_id) ==
    /\ Called(w)
    /\ changes' = [changes EXCEPT ![w].blinded_signatures =
                       InsertAll(@, blinded_message, blind_signatures)]
    /\ quote_signatures' = IF quote_id = None THEN quote_signatures
                           ELSE MapInsert(quote_signatures, quote_id[1], blind_signatures)
    /\ UNCHANGED << active_keysets, keysets, mint_quotes, melt_quotes, proofs, proof_state,
                    quote_proofs, blinded_signatures, melt_requests,
                    locks, writer_index, snapshot, pc, op, reader_vars, signatory_vars, manager_vars >>

add_proofs(w, new_proofs, quote_id) ==
    /\ Called(w)
    /\ LET ys == [i \in 1 .. Len(new_proofs) |-> new_proofs[i].y]
       IN  /\ proofs' = InsertAll(proofs, ys, new_proofs)
           /\ quote_proofs' = IF quote_id = None THEN quote_proofs
                              ELSE MapInsert(quote_proofs, quote_id[1], ys)
    /\ UNCHANGED << active_keysets, keysets, mint_quotes, melt_quotes, proof_state,
                    blinded_signatures, quote_signatures, melt_requests,
                    locks, writer_index, snapshot, pc, changes, op, reader_vars, signatory_vars, manager_vars >>

\* Err(UnknownQuote) when the quote is not stored.
update_melt_quote_state(w, quote_id, state) ==
    /\ Called(w)
    /\ IF quote_id \notin DOMAIN melt_quotes
       THEN UNCHANGED melt_quotes
       ELSE melt_quotes' = [melt_quotes EXCEPT ![quote_id].state = state]
    /\ UNCHANGED << active_keysets, keysets, mint_quotes, proofs, proof_state, quote_proofs,
                    blinded_signatures, quote_signatures, melt_requests,
                    locks, writer_index, snapshot, pc, changes, op, reader_vars, signatory_vars, manager_vars >>

get_melt_quote(w, quote_id) ==
    /\ Called(w)
    /\ LET melt_quote == MapGet(melt_quotes, quote_id)
       IN  IF melt_quote = None
           THEN UNCHANGED << pc, op >>
           ELSE ReadThenLock(w, "get_melt_quote",
                             << AnyId_MeltQuote(melt_quote[1].id) >>, melt_quote)
    /\ UNCHANGED << inner_vars, locks, writer_index, snapshot, changes, reader_vars, signatory_vars, manager_vars >>

\* Holds the read guard of inner.melt_requests until it returns.
get_melt_request(w, quote_id) ==
    /\ Called(w)
    /\ LET melt_request == MapGet(melt_requests, quote_id)
       IN  IF melt_request = None
           THEN UNCHANGED << pc, op >>
           ELSE ReadThenLock(w, "get_melt_request",
                             << AnyId_MeltQuote(melt_request[1].quote) >>, melt_request)
    /\ UNCHANGED << inner_vars, locks, writer_index, snapshot, changes, reader_vars, signatory_vars, manager_vars >>

\* Holds the read guard of inner.blinded_signatures until it returns.
get_blind_signatures(w, blinded_messages) ==
    /\ Called(w)
    /\ ReadThenLock(w, "get_blind_signatures",
                    [i \in 1 .. Len(blinded_messages) |->
                        AnyId_BlindSignature(blinded_messages[i])],
                    [i \in 1 .. Len(blinded_messages) |->
                        MapGet(blinded_signatures, blinded_messages[i])])
    /\ UNCHANGED << inner_vars, locks, writer_index, snapshot, changes, reader_vars, signatory_vars, manager_vars >>

\* Returns the previous state of each y.
update_proofs_states(w, ys, new_state) ==
    /\ Called(w)
    /\ proof_state' = InsertAll(proof_state, ys, [i \in 1 .. Len(ys) |-> new_state])
    /\ UNCHANGED << active_keysets, keysets, mint_quotes, melt_quotes, proofs, quote_proofs,
                    blinded_signatures, quote_signatures, melt_requests,
                    locks, writer_index, snapshot, pc, changes, op, reader_vars, signatory_vars, manager_vars >>

\* Tasks holding a tokio read guard of a store map across an await.
ReadGuards_blinded_signatures ==
    {w \in Writers : pc[w] = "lock_wait" /\ op[w].name = "get_blind_signatures"}
ReaderGuard_blinded_signatures ==
    rpc = "access_wait" /\ rop.name = "get_blind_signatures"
ReadGuards_melt_requests ==
    {w \in Writers : pc[w] = "lock_wait" /\ op[w].name = "get_melt_request"}

\* merge!: map2 is drained into map1.
merge(map1, map2) ==
    [k \in (DOMAIN map1) \cup (DOMAIN map2) |-> IF k \in DOMAIN map2 THEN map2[k] ELSE map1[k]]

\* commit, first part: merge! of keysets, mint_quotes, melt_quotes and proofs. Of
\* these change sets only mint_quotes is ever written.
commit(w) ==
    /\ pc[w] = "idle"
    /\ mint_quotes' = merge(mint_quotes, changes[w].mint_quotes)
    /\ changes' = [changes EXCEPT ![w].mint_quotes = EmptyMap]
    /\ pc' = [pc EXCEPT ![w] = "commit_blinded_signatures"]
    /\ UNCHANGED << active_keysets, keysets, melt_quotes, proofs, proof_state, quote_proofs,
                    blinded_signatures, quote_signatures, melt_requests,
                    locks, writer_index, snapshot, op, nops, reader_vars, signatory_vars, manager_vars >>

\* commit, second part: merge! of blinded_signatures takes the map's write lock.
commit_blinded_signatures(w) ==
    /\ pc[w] = "commit_blinded_signatures"
    /\ ReadGuards_blinded_signatures = {}
    /\ ~ ReaderGuard_blinded_signatures
    /\ blinded_signatures' = merge(blinded_signatures, changes[w].blinded_signatures)
    /\ changes' = [changes EXCEPT ![w].blinded_signatures = EmptyMap]
    /\ pc' = [pc EXCEPT ![w] = "commit_release"]
    /\ UNCHANGED << active_keysets, keysets, mint_quotes, melt_quotes, proofs, proof_state,
                    quote_proofs, quote_signatures, melt_requests,
                    locks, writer_index, snapshot, op, nops, reader_vars, signatory_vars, manager_vars >>

\* commit, last part: merge! of quote_proofs, quote_signatures and melt_requests
\* (change sets never written), release, and then todo!(): commit panics instead
\* of returning Ok(()).
commit_release(w) ==
    /\ pc[w] = "commit_release"
    /\ ReadGuards_melt_requests = {}
    /\ release(w)
    /\ pc' = [pc EXCEPT ![w] = "commit_panicked"]
    /\ UNCHANGED << inner_vars, writer_index, snapshot, changes, op, nops, reader_vars, signatory_vars, manager_vars >>

\* Returns Ok(()).
rollback(w) ==
    /\ pc[w] = "idle"
    /\ release(w)
    /\ pc' = [pc EXCEPT ![w] = "rolledback"]
    /\ changes' = [changes EXCEPT ![w] = EmptyChanges]
    /\ UNCHANGED << inner_vars, writer_index, snapshot, op, nops, reader_vars, signatory_vars, manager_vars >>

\* The writer goes out of scope without commit() or rollback(): MintMemoryWriter
\* has no Drop implementation, so its fields are freed and nothing else happens.
drop_writer(w) ==
    /\ pc[w] = "idle"
    /\ pc' = [pc EXCEPT ![w] = "dropped"]
    /\ changes' = [changes EXCEPT ![w] = EmptyChanges]
    /\ UNCHANGED << inner_vars, locks, writer_index, snapshot, op, nops, reader_vars, signatory_vars, manager_vars >>

(* ---------------------- non-transactional reads ----------------------- *)

\* get_mint_quote: access() on the quote's id, then the read of the store.
db_get_mint_quote_call(quote_id) ==
    /\ rpc = "idle"
    /\ rpc' = "access_wait"
    /\ rop' = [name |-> "get_mint_quote", ids |-> << AnyId_MintQuote(quote_id) >>,
               result |-> None]
    /\ UNCHANGED << inner_vars, writer_vars, signatory_vars, manager_vars >>

\* get_blind_signatures: the store is read for each message, then access() on it.
db_get_blind_signatures_call(blinded_messages) ==
    /\ rpc = "idle"
    /\ rpc' = "access_wait"
    /\ rop' = [name |-> "get_blind_signatures",
               ids |-> [i \in 1 .. Len(blinded_messages) |->
                           AnyId_BlindSignature(blinded_messages[i])],
               result |-> [i \in 1 .. Len(blinded_messages) |->
                              MapGet(blinded_signatures, blinded_messages[i])]]
    /\ UNCHANGED << inner_vars, writer_vars, signatory_vars, manager_vars >>

\* access() finds the id without a holder. get_blind_signatures then goes on to
\* its next message or returns Ok(result); get_mint_quote goes on to its read.
db_access_step ==
    /\ rpc = "access_wait"
    /\ access(Head(rop.ids))
    /\ IF rop.name = "get_mint_quote"
       THEN /\ rpc' = "read"
            /\ UNCHANGED rop
       ELSE IF Len(rop.ids) = 1
            THEN /\ rpc' = "idle"
                 /\ rop' = NoOp
            ELSE /\ rop' = [rop EXCEPT !.ids = Tail(@)]
                 /\ UNCHANGED rpc
    /\ UNCHANGED << inner_vars, writer_vars, signatory_vars, manager_vars >>

\* Returns Ok(MapGet(mint_quotes, quote_id)).
db_get_mint_quote_read ==
    /\ rpc = "read"
    /\ rpc' = "idle"
    /\ rop' = NoOp
    /\ UNCHANGED << inner_vars, writer_vars, signatory_vars, manager_vars >>

(* ----------------------------- signatory ------------------------------ *)

\* Result<T, Error>
Ok(value) == << "Ok", value >>
Err(error) == << "Err", error >>
IsOk(result) == result[1] = "Ok"

\* CurrencyUnit::derivation_index
derivation_index(unit) ==
    CASE unit = "sat" -> Some(0)
      [] unit = "msat" -> Some(1)
      [] unit = "usd" -> Some(2)
      [] unit = "eur" -> Some(3)
      [] OTHER -> None

\* The hardened path m/0'/unit_index'/index'.
derivation_path_from_unit(unit, index) ==
    LET unit_index == derivation_index(unit)
    IN  IF unit_index = None THEN None ELSE Some(<< 0, unit_index[1], index >>)

\* The amounts a keyset of max_order has a key pair for: 2^i for i in 0 .. max_order - 1.
KeyAmounts(max_order) == {2 ^ i : i \in 0 .. (max_order - 1)}

\* The key pair derived from the master key at a path for an amount; the master
\* key is the same in every call.
MintKeyPair(derivation_path, amount) == << derivation_path, amount >>

\* Id: derived from the public keys of the keyset, which the path and the
\* number of keys determine.
KeysetId(derivation_path, max_order) == << derivation_path, max_order >>

\* MintKeySet::generate_from_xpriv
generate_from_xpriv(max_order, unit, derivation_path) ==
    [id |-> KeysetId(derivation_path, max_order),
     unit |-> unit,
     keys |-> [a \in KeyAmounts(max_order) |-> MintKeyPair(derivation_path, a)]]

\* create_new_keyset with an id that depends on the fee as well.
create_new_keyset_fee_in_id(derivation_path, derivation_path_index, unit, max_order, input_fee_ppk) ==
    LET keyset == generate_from_xpriv(max_order, unit, derivation_path)
    IN  << [keyset EXCEPT !.id = << keyset.id, input_fee_ppk >>],
           [id |-> << keyset.id, input_fee_ppk >>,
            unit |-> keyset.unit,
            max_order |-> max_order,
            derivation_path |-> derivation_path,
            derivation_path_index |-> derivation_path_index,
            input_fee_ppk |-> input_fee_ppk,
            active |-> TRUE] >>

\* Returns (keyset, keyset_info); valid_from (the clock) and valid_to (None) are
\* left out of MintKeySetInfo.
create_new_keyset(derivation_path, derivation_path_index, unit, max_order, input_fee_ppk) ==
    LET keyset == generate_from_xpriv(max_order, unit, derivation_path)
    IN  << keyset,
           [id |-> keyset.id,
            unit |-> keyset.unit,
            max_order |-> max_order,
            derivation_path |-> derivation_path,
            derivation_path_index |-> derivation_path_index,
            input_fee_ppk |-> input_fee_ppk,
            active |-> TRUE] >>

generate_keyset(keyset_info) ==
    generate_from_xpriv(keyset_info.max_order, keyset_info.unit, keyset_info.derivation_path)

\* set_active_keyset that leaves a unit's active keyset as it is once it has one.
set_active_keyset_first_only(map, unit, id) ==
    IF unit \in DOMAIN map THEN map ELSE MapInsert(map, unit, id)

\* The keyset tables of the database, as the signatory calls them.
set_active_keyset(map, unit, id) == MapInsert(map, unit, id)
get_active_keyset_id(unit) == MapGet(active_keysets, unit)
add_keyset_info(map, keyset) == MapInsert(map, keyset.id, keyset)
get_keyset_info(keyset_id) == MapGet(keysets, keyset_id)
get_keyset_infos == MapValues(keysets)

\* custom_paths.get(&unit), else derivation_path_from_unit
path_for(unit, derivation_path_index, custom_paths) ==
    IF unit \in DOMAIN custom_paths
    THEN Some(custom_paths[unit])
    ELSE derivation_path_from_unit(unit, derivation_path_index)

\* A signatory call is made: calls are made one at a time.
SignatoryCalled ==
    /\ scalls < MaxCalls
    /\ scalls' = scalls + 1

Constructed == sresult.name # "none"

NoRotation == [u \in Units |-> None]

\* Option<u32> ordering: None is below every Some.
OptionLeq(a, b) == a = None \/ (b # None /\ a[1] <= b[1])

\* The stored keyset infos of a unit, and those of them that may come first when
\* they are sorted by derivation_path_index, highest first (ties keep the order
\* of the storage's hash map, which is arbitrary).
keysets_by_unit(unit) == {ks \in get_keyset_infos : ks.unit = unit}
highest_index_keysets(unit) ==
    {ks \in keysets_by_unit(unit) :
        \A other \in keysets_by_unit(unit) :
            OptionLeq(other.derivation_path_index, ks.derivation_path_index)}

\* The first loop creating the new keyset at the highest index, not the next one.
reconcile_unit_same_index(st, unit, highest_index_keyset, supported_units, custom_paths) ==
    IF unit \notin DOMAIN supported_units THEN st
    ELSE
        LET input_fee_ppk == supported_units[unit][1]
            max_order == supported_units[unit][2]
            with_index == {ks \in keysets_by_unit(unit) : ks.derivation_path_index # None}
        IN  IF /\ with_index # {}
               /\ highest_index_keyset.input_fee_ppk = input_fee_ppk
               /\ highest_index_keyset.max_order = max_order
            THEN \* reactivated; the unit is not pushed to active_keyset_units
                 [st EXCEPT
                    !.keysets = add_keyset_info(@, [highest_index_keyset EXCEPT !.active = TRUE]),
                    !.active_keysets = set_active_keyset(@, unit, highest_index_keyset.id)]
            ELSE
                LET derivation_path_index ==
                        IF with_index = {} THEN 1
                        ELSE (IF highest_index_keyset.derivation_path_index = None THEN 0
                              ELSE highest_index_keyset.derivation_path_index[1])
                    derivation_path == path_for(unit, derivation_path_index, custom_paths)
                    created == create_new_keyset(derivation_path[1], Some(derivation_path_index),
                                                 unit, max_order, input_fee_ppk)
                IN  [active_keysets |-> set_active_keyset(st.active_keysets, unit, created[2].id),
                     keysets |-> add_keyset_info(st.keysets, created[2]),
                     active_keyset_units |-> st.active_keyset_units \cup {unit}]

\* MemorySignatory::new, first loop, one stored unit. st is the storage and the
\* list active_keyset_units so far.
reconcile_unit(st, unit, highest_index_keyset, supported_units, custom_paths) ==
    IF unit \notin DOMAIN supported_units THEN st
    ELSE
        LET input_fee_ppk == supported_units[unit][1]
            max_order == supported_units[unit][2]
            with_index == {ks \in keysets_by_unit(unit) : ks.derivation_path_index # None}
        IN  IF /\ with_index # {}
               /\ highest_index_keyset.input_fee_ppk = input_fee_ppk
               /\ highest_index_keyset.max_order = max_order
            THEN \* reactivated; the unit is not pushed to active_keyset_units
                 [st EXCEPT
                    !.keysets = add_keyset_info(@, [highest_index_keyset EXCEPT !.active = TRUE]),
                    !.active_keysets = set_active_keyset(@, unit, highest_index_keyset.id)]
            ELSE
                LET derivation_path_index ==
                        IF with_index = {} THEN 1
                        ELSE (IF highest_index_keyset.derivation_path_index = None THEN 0
                              ELSE highest_index_keyset.derivation_path_index[1]) + 1
                    derivation_path == path_for(unit, derivation_path_index, custom_paths)
                    created == create_new_keyset(derivation_path[1], Some(derivation_path_index),
                                                 unit, max_order, input_fee_ppk)
                IN  [active_keysets |-> set_active_keyset(st.active_keysets, unit, created[2].id),
                     keysets |-> add_keyset_info(st.keysets, created[2]),
                     active_keyset_units |-> st.active_keyset_units \cup {unit}]

\* The first loop over the stored units. The units are taken in some order; each
\* touches only its own keysets.
RECURSIVE reconcile_units(_, _, _, _, _)
reconcile_units(st, units, highest, supported_units, custom_paths) ==
    IF units = {} THEN st
    ELSE LET unit == CHOOSE u \in units : TRUE
         IN  reconcile_units(
                 reconcile_unit(st, unit, highest[unit], supported_units, custom_paths),
                 units \ {unit}, highest, supported_units, custom_paths)

\* MemorySignatory::new, second loop, one supported unit: a keyset at index 0
\* unless the first loop created one for the unit.
create_unit(st, unit, supported_units, custom_paths) ==
    IF unit \in st.active_keyset_units THEN st
    ELSE
        LET derivation_path == path_for(unit, 0, custom_paths)
            created == create_new_keyset(derivation_path[1], Some(0), unit,
                                         supported_units[unit][2], supported_units[unit][1])
        IN  [st EXCEPT
                !.keysets = add_keyset_info(@, created[2]),
                !.active_keysets = set_active_keyset(@, unit, created[2].id)]

RECURSIVE create_units(_, _, _, _)
create_units(st, units, supported_units, custom_paths) ==
    IF units = {} THEN st
    ELSE LET unit == CHOOSE u \in units : TRUE
         IN  create_units(create_unit(st, unit, supported_units, custom_paths),
                          units \ {unit}, supported_units, custom_paths)

\* MemorySignatory::new over the storage as it is: at start, and again at every
\* restart of the signatory. Returns a signatory with an empty cache.
new(supported_units, custom_paths) ==
    /\ IF Constructed THEN SignatoryCalled ELSE UNCHANGED scalls
    /\ LET stored_units == {ks.unit : ks \in get_keyset_infos}
       IN  \E highest \in [stored_units -> get_keyset_infos] :
             /\ \A unit \in stored_units : highest[unit] \in highest_index_keysets(unit)
             /\ LET inactive ==
                        [st_id \in DOMAIN keysets |-> [keysets[st_id] EXCEPT !.active = FALSE]]
                    st0 == [active_keysets |-> active_keysets,
                            keysets |-> inactive,
                            active_keyset_units |-> {}]
                    st1 == reconcile_units(st0, stored_units, highest,
                                           supported_units, custom_paths)
                    st2 == create_units(st1, DOMAIN supported_units,
                                        supported_units, custom_paths)
                IN  /\ keysets' = st2.keysets
                    /\ active_keysets' = st2.active_keysets
    /\ signatory_keysets' = EmptyMap
    /\ sresult' = [name |-> "new", result |-> Ok(<< >>), args |-> << >>]
    /\ last_rotation' = NoRotation
    /\ UNCHANGED << mint_quotes, melt_quotes, proofs, proof_state, quote_proofs,
                    blinded_signatures, quote_signatures, melt_requests,
                    writer_vars, reader_vars >>

\* Returns the stored info of the keyset, or Err(UnknownKeySet); the keyset is
\* derived into the cache when it is not there. "keysets" is the cache afterwards.
load_and_get_keyset(id) ==
    LET keyset_info == get_keyset_info(id)
    IN  IF keyset_info = None
        THEN [result |-> Err("UnknownKeySet"), keysets |-> signatory_keysets]
        ELSE IF id \in DOMAIN signatory_keysets
        THEN [result |-> Ok(keyset_info[1]), keysets |-> signatory_keysets]
        ELSE [result |-> Ok(keyset_info[1]),
              keysets |-> MapInsert(signatory_keysets, keyset_info[1].id,
                                    generate_keyset(keyset_info[1]))]

\* keyset.keys.get(amount)
key_for_amount(keyset, amount) ==
    IF amount \in DOMAIN keyset.keys THEN Ok(keyset.keys[amount]) ELSE Err("AmountKey")

\* get_keypair_for_amount without the check that the keyset is the active one.
get_keypair_for_amount_any_keyset(keyset_id, amount) ==
    LET loaded == load_and_get_keyset(keyset_id)
    IN  IF ~ IsOk(loaded.result) THEN loaded
        ELSE [result |-> key_for_amount(loaded.keysets[keyset_id], amount),
              keysets |-> loaded.keysets]

\* get_keypair_for_amount that reports every failure of the lookup as InactiveKeyset.
get_keypair_for_amount_one_error(keyset_id, amount) ==
    LET loaded == load_and_get_keyset(keyset_id)
    IN  IF /\ IsOk(loaded.result)
           /\ get_active_keyset_id(loaded.result[2].unit) = Some(keyset_id)
           /\ amount \in DOMAIN loaded.keysets[keyset_id].keys
        THEN [result |-> Ok(loaded.keysets[keyset_id].keys[amount]), keysets |-> loaded.keysets]
        ELSE [result |-> Err("InactiveKeyset"), keysets |-> loaded.keysets]

get_keypair_for_amount(keyset_id, amount) ==
    LET loaded == load_and_get_keyset(keyset_id)
    IN  IF ~ IsOk(loaded.result) THEN loaded
        ELSE
            LET keyset_info == loaded.result[2]
                active == get_active_keyset_id(keyset_info.unit)
                keyset == MapGet(loaded.keysets, keyset_id)
            IN  [result |->
                    IF active = None THEN Err("InactiveKeyset")
                    ELSE IF keyset_info.id # active[1] THEN Err("InactiveKeyset")
                    ELSE IF keyset = None THEN Err("UnknownKeySet")
                    ELSE key_for_amount(keyset[1], amount),
                 keysets |-> loaded.keysets]

\* dhke::sign_message: C_ = k * B_
sign_message(secret_key, blinded_secret) == << "C_", secret_key, blinded_secret >>

\* BlindSignature::new
NewSignature(amount, c, keyset_id) == [keyset_id |-> keyset_id, amount |-> amount, c |-> c]

blind_sign(blinded_message) ==
    /\ Constructed
    /\ SignatoryCalled
    /\ LET key_pair == get_keypair_for_amount(blinded_message.keyset_id, blinded_message.amount)
       IN  /\ signatory_keysets' = key_pair.keysets
           /\ sresult' =
                 [name |-> "blind_sign",
                  result |->
                     IF ~ IsOk(key_pair.result) THEN key_pair.result
                     ELSE Ok(NewSignature(blinded_message.amount,
                                          sign_message(key_pair.result[2],
                                                       blinded_message.blinded_secret),
                                          blinded_message.keyset_id)),
                  args |-> << blinded_message >>]
    /\ UNCHANGED << inner_vars, writer_vars, reader_vars, last_rotation >>

\* Err(UnsupportedUnit) when the unit has neither a custom path nor a derivation
\* index; else the new keyset's info is stored, the keyset is made the active one
\* of the unit and is cached.
rotate_keyset(unit, derivation_path_index, max_order, input_fee_ppk, custom_paths) ==
    /\ Constructed
    /\ SignatoryCalled
    /\ LET derivation_path == path_for(unit, derivation_path_index, custom_paths)
       IN  IF derivation_path = None
           THEN /\ sresult' = [name |-> "rotate_keyset",
                               result |-> Err("UnsupportedUnit"),
                               args |-> << unit >>]
                /\ UNCHANGED << keysets, active_keysets, signatory_keysets, last_rotation >>
           ELSE
               LET created == create_new_keyset(derivation_path[1], Some(derivation_path_index),
                                                unit, max_order, input_fee_ppk)
                   id == created[2].id
               IN  /\ keysets' = add_keyset_info(keysets, created[2])
                   /\ active_keysets' = set_active_keyset(active_keysets, unit, id)
                   /\ signatory_keysets' = MapInsert(signatory_keysets, id, created[1])
                   /\ sresult' = [name |-> "rotate_keyset",
                                  result |-> Ok(created[2]),
                                  args |-> << unit >>]
                   /\ last_rotation' = [last_rotation EXCEPT ![unit] =
                                           Some([new |-> id,
                                                 previous |-> get_active_keyset_id(unit)])]
    /\ UNCHANGED << mint_quotes, melt_quotes, proofs, proof_state, quote_proofs,
                    blinded_signatures, quote_signatures, melt_requests,
                    writer_vars, reader_vars >>

\* The signature C = k * hash_to_curve(secret) a wallet holds after unblinding.
unblinded_signature(secret_key, secret) == << "C", secret_key, secret >>

\* dhke::verify_message: k * hash_to_curve(msg) == C, else TokenNotVerified.
verify_message(secret_key, c, secret) ==
    IF c = unblinded_signature(secret_key, secret) THEN Ok(<< >>) ELSE Err("TokenNotVerified")

\* The check of a secret with spending conditions: the secret's kind is "plain"
\* (not a nut10 secret), "P2PK" or "HTLC"; "conditions_met" says whether the
\* proof's witness meets the conditions of a nut10 secret.
verify_conditions(proof) ==
    IF proof.kind = "plain" THEN Ok(<< >>)
    ELSE IF proof.conditions_met THEN Ok(<< >>)
    ELSE IF proof.kind = "P2PK" THEN Err("P2PKError")
    ELSE Err("HTLCError")

\* The spending conditions first, then the key pair of (keyset_id, amount), then
\* the signature.
verify_proof(proof) ==
    /\ Constructed
    /\ SignatoryCalled
    /\ IF ~ IsOk(verify_conditions(proof))
       THEN /\ sresult' = [name |-> "verify_proof",
                           result |-> verify_conditions(proof),
                           args |-> << >>]
            /\ UNCHANGED signatory_keysets
       ELSE
           LET key_pair == get_keypair_for_amount(proof.keyset_id, proof.amount)
           IN  /\ signatory_keysets' = key_pair.keysets
               /\ sresult' =
                     [name |-> "verify_proof",
                      result |->
                         IF ~ IsOk(key_pair.result) THEN key_pair.result
                         ELSE verify_message(key_pair.result[2], proof.c, proof.secret),
                      args |-> << >>]
    /\ UNCHANGED << inner_vars, writer_vars, reader_vars, last_rotation >>

\* The public key of a key pair.
public_key(key_pair) == << "K", key_pair >>

\* From<MintKeySet> for KeySet: the keyset with the public keys alone.
KeySet(keyset) ==
    [id |-> keyset.id,
     unit |-> keyset.unit,
     keys |-> [a \in DOMAIN keyset.keys |-> public_key(keyset.keys[a])]]

\* The ids that are the active keyset id of some unit.
active_keyset_ids == MapValues(active_keysets)

\* The cache after load_and_get_keyset of every id of ids (all of them stored).
load_all(ids) ==
    [id \in (DOMAIN signatory_keysets) \cup ids |->
        IF id \in DOMAIN signatory_keysets THEN signatory_keysets[id]
        ELSE generate_keyset(keysets[id])]

\* The cached keysets whose id is an active keyset id.
active_keys(cache, active) ==
    {KeySet(cache[id]) : id \in {k \in DOMAIN cache : cache[k].id \in active}}

\* Loads every active keyset into the cache, then returns the cached keysets
\* that are active. When an active id has no stored info the call fails with
\* UnknownKeySet, after loading those of the active keysets it came to first.
pubkeys ==
    /\ Constructed
    /\ SignatoryCalled
    /\ LET missing == {id \in active_keyset_ids : get_keyset_info(id) = None}
       IN  IF missing = {}
           THEN /\ signatory_keysets' = load_all(active_keyset_ids)
                /\ sresult' = [name |-> "pubkeys",
                               result |-> Ok(active_keys(load_all(active_keyset_ids),
                                                         active_keyset_ids)),
                               args |-> << >>]
           ELSE /\ \E loaded \in SUBSET (active_keyset_ids \ missing) :
                      signatory_keysets' = load_all(loaded)
                /\ sresult' = [name |-> "pubkeys",
                               result |-> Err("UnknownKeySet"),
                               args |-> << >>]
    /\ UNCHANGED << inner_vars, writer_vars, reader_vars, last_rotation >>

\* KeySetInfo with the active flag of the stored info.
KeySetInfo_stored_flag(k) ==
    [id |-> k.id,
     unit |-> k.unit,
     input_fee_ppk |-> k.input_fee_ppk,
     active |-> k.active]

\* KeySetInfo of a stored keyset: active is whether the id is an active keyset id.
KeySetInfo(k) ==
    [id |-> k.id,
     unit |-> k.unit,
     input_fee_ppk |-> k.input_fee_ppk,
     active |-> k.id \in active_keyset_ids]

\* The KeysetResponse: every stored keyset.
keysets_response == {KeySetInfo(k) : k \in get_keyset_infos}

\* Signatory::keysets
keysets_call ==
    /\ Constructed
    /\ SignatoryCalled
    /\ sresult' = [name |-> "keysets",
                   result |-> Ok(keysets_response),
                   args |-> << >>]
    /\ UNCHANGED << inner_vars, writer_vars, reader_vars, signatory_keysets, last_rotation >>

(* -------------------------- SignatoryManager -------------------------- *)

\* SignatoryManager::new: the channel is made and the runner is spawned.
SignatoryManager_new ==
    /\ Constructed
    /\ runner = "none"
    /\ runner' = "running"
    /\ UNCHANGED << inner_vars, writer_vars, reader_vars, signatory_vars,
                    pipeline, spawned, callers, issued >>

\* The requests the manager has and has not yet called the signatory for.
in_manager == {pipeline[i].id : i \in 1 .. Len(pipeline)} \cup {r.id : r \in spawned}

\* What a call of the signatory finds.
signatory_state == << active_keysets, keysets, signatory_keysets >>

\* The callers' results that came from the signatory, those that try_send put
\* in the channel.
accepted == {i \in 1 .. Len(callers) : callers[i] # << "returned", Err("SendError") >>}

\* try_send that puts the request in the channel however many it holds.
try_send_unbounded(request) ==
    /\ Len(callers) < MaxCalls + MaxRefused
    /\ pipeline' = Append(pipeline, request)
    /\ callers' = Append(callers, << "awaiting" >>)

\* mpsc::Sender::try_send and the map_err after it: the request is put in the
\* channel when the channel holds fewer requests than its capacity, and the
\* caller goes on to await the reply; else the caller returns SendError.
try_send(request) ==
    IF Len(pipeline) < ChannelCapacity
    THEN /\ Cardinality(accepted) < MaxCalls
         /\ pipeline' = Append(pipeline, request)
         /\ callers' = Append(callers, << "awaiting" >>)
    ELSE /\ Len(callers) - Cardinality(accepted) < MaxRefused
         /\ pipeline' = pipeline
         /\ callers' = Append(callers, << "returned", Err("SendError") >>)

\* A method of the manager is called: the request with a reply channel is sent.
submit(name, args) ==
    /\ runner = "running"
    /\ try_send([id |-> Len(callers) + 1, name |-> name, args |-> args])
    /\ issued' =
          Append([i \in 1 .. Len(issued) |->
                     IF i \in in_manager THEN [issued[i] EXCEPT !.sequential = FALSE]
                     ELSE issued[i]],
                 [state |-> signatory_state,
                  sequential |-> in_manager = {},
                  outputs |-> << >>])
    /\ UNCHANGED << inner_vars, writer_vars, reader_vars, signatory_vars, spawned, runner >>

\* The runner's loop receiving a request without spawning a task for it.
runner_recv_unspawned ==
    /\ runner = "running"
    /\ pipeline # << >>
    /\ spawned' = spawned
    /\ pipeline' = Tail(pipeline)
    /\ UNCHANGED << inner_vars, writer_vars, reader_vars, signatory_vars,
                    runner, callers, issued >>

\* The runner's loop: a request is received and a task is spawned for it. The
\* loop has one await, the receive; an abort requested while the runner is
\* being polled takes effect at the next receive that is not ready, so the
\* runner may still receive and spawn in between.
runner_recv ==
    /\ runner \in {"running", "aborting"}
    /\ pipeline # << >>
    /\ spawned' = spawned \cup {Head(pipeline)}
    /\ pipeline' = Tail(pipeline)
    /\ UNCHANGED << inner_vars, writer_vars, reader_vars, signatory_vars,
                    runner, callers, issued >>

\* The signatory method of the request's variant, called with its inputs.
dispatch(request) ==
    \/ request.name = "blind_sign" /\ blind_sign(request.args[1])
    \/ request.name = "verify_proof" /\ verify_proof(request.args[1])
    \/ request.name = "keysets" /\ keysets_call
    \/ request.name = "pubkeys" /\ pubkeys
    \/ /\ request.name = "rotate_keyset"
       /\ rotate_keyset(request.args[1], request.args[2], request.args[3],
                        request.args[4], request.args[5])

\* response.send(output) that sends every error of the signatory as RecvError.
send_errors_as_RecvError(id, output) ==
    IF callers[id] = << "awaiting" >>
    THEN [callers EXCEPT ![id] =
             << "returned", IF IsOk(output) THEN output ELSE Err("RecvError") >>]
    ELSE callers

\* response.send(output): the caller that awaits the reply gets the output; when
\* the caller has dropped the receiver the output is dropped (and logged).
send(id, output) ==
    IF callers[id] = << "awaiting" >>
    THEN [callers EXCEPT ![id] = << "returned", output >>]
    ELSE callers

\* The task spawned for a request: the signatory is called and the output is
\* sent to the reply channel.
task_run(request) ==
    /\ request \in spawned
    /\ dispatch(request)
    /\ spawned' = spawned \ {request}
    /\ callers' = send(request.id, sresult'.result)
    /\ issued' = [issued EXCEPT ![request.id].outputs = Append(@, sresult'.result)]
    /\ UNCHANGED << pipeline, runner >>

\* Drop for SignatoryManager: runner.abort(). The manager is gone, so no
\* method of it is called afterwards; the spawned tasks are not aborted.
drop_manager ==
    /\ runner = "running"
    /\ runner' = "aborting"
    /\ UNCHANGED << inner_vars, writer_vars, reader_vars, signatory_vars,
                    pipeline, spawned, callers, issued >>

\* What the callers have once the reply channels of the requests in the
\* channel are dropped: receiver.await fails and is mapped to RecvError.
reply_dropped(queue) ==
    [id \in 1 .. Len(callers) |->
        IF (\E i \in 1 .. Len(queue) : queue[i].id = id) /\ callers[id] = << "awaiting" >>
        THEN << "returned", Err("RecvError") >>
        ELSE callers[id]]

\* The abort that leaves the requests of the channel with their callers waiting.
runner_aborted_keeps_replies ==
    /\ runner = "aborting"
    /\ runner' = "aborted"
    /\ pipeline' = << >>
    /\ callers' = callers
    /\ UNCHANGED << inner_vars, writer_vars, reader_vars, signatory_vars, spawned, issued >>

\* The abort takes effect: the runner's future is dropped and with it the
\* receiver, the requests still in the channel and their reply senders.
runner_aborted ==
    /\ runner = "aborting"
    /\ runner' = "aborted"
    /\ pipeline' = << >>
    /\ callers' = reply_dropped(pipeline)
    /\ UNCHANGED << inner_vars, writer_vars, reader_vars, signatory_vars, spawned, issued >>

(* -------------------------------- Mint -------------------------------- *)

\* A method of Mint returns: the task is over.
Return(name, result) ==
    [name |-> name, result |-> result, pc |-> "returned", w |-> None, args |-> << >>]

\* MintDatabase::get_mint_quote_by_request: get_mint_quotes, filter, first; a plain
\* read of the store. Requests are unique, so at most one quote matches.
db_get_mint_quote_by_request(request) ==
    LET quotes == {q \in db_get_mint_quotes : q.request = request}
    IN  IF quotes = {} THEN None ELSE Some(CHOOSE q \in quotes : TRUE)

\* MintQuote.amount: every mint quote of the model is for the amount 1.
MintQuote_amount(mint_quote) == 1

handle_internal_melt_mint_issued_only(melt_quote, inputs_amount) ==
    /\ mint_task = NoTask
    /\ LET found == db_get_mint_quote_by_request(melt_quote.request)
       IN  mint_task' =
              IF found = None
              THEN Return("handle_internal_melt_mint", Ok(None))
              ELSE IF found[1].state = "Issued"
              THEN Return("handle_internal_melt_mint", Err("RequestAlreadyPaid"))
              ELSE IF MintQuote_amount(found[1]) > inputs_amount
              THEN Return("handle_internal_melt_mint", Err("InsufficientFunds"))
              ELSE [name |-> "handle_internal_melt_mint",
                    result |-> None,
                    pc |-> "update_mint_quote",
                    w |-> None,
                    args |-> << [found[1] EXCEPT !.state = "Paid"], melt_quote.amount >>]
    /\ UNCHANGED << inner_vars, writer_vars, reader_vars, signatory_vars, manager_vars, swaps, watcher, melts, rotating >>

\* handle_internal_melt_mint up to its call of update_mint_quote: the mint quote
\* with the melt quote's request is read outside any transaction and checked;
\* inputs_amount is melt_request.proofs_amount().
handle_internal_melt_mint(melt_quote, inputs_amount) ==
    /\ mint_task = NoTask
    /\ LET found == db_get_mint_quote_by_request(melt_quote.request)
       IN  mint_task' =
              IF found = None
              THEN Return("handle_internal_melt_mint", Ok(None))
              ELSE IF found[1].state \in {"Paid", "Issued"}
              THEN Return("handle_internal_melt_mint", Err("RequestAlreadyPaid"))
              ELSE IF MintQuote_amount(found[1]) > inputs_amount
              THEN Return("handle_internal_melt_mint", Err("InsufficientFunds"))
              ELSE [name |-> "handle_internal_melt_mint",
                    result |-> None,
                    pc |-> "update_mint_quote",
                    w |-> None,
                    args |-> << [found[1] EXCEPT !.state = "Paid"], melt_quote.amount >>]
    /\ UNCHANGED << inner_vars, writer_vars, reader_vars, signatory_vars, manager_vars, swaps, watcher, melts, rotating >>

\* Mint::update_mint_quote(quote): the quote is written in a transaction of its
\* own, the one way the database has to write a mint quote. First the
\* transaction is begun.
update_mint_quote_begin ==
    /\ mint_task.pc = "update_mint_quote"
    /\ begin_transaction
    /\ mint_task' = [mint_task EXCEPT !.pc = "add_mint_quote", !.w = Some(writer_index)]
    /\ UNCHANGED << swaps, watcher, melts, rotating >>

\* update_mint_quote: add_mint_quote(quote) on the transaction.
update_mint_quote_add ==
    /\ mint_task.pc = "add_mint_quote"
    /\ add_mint_quote(mint_task.w[1], mint_task.args[1])
    /\ mint_task' = [mint_task EXCEPT !.pc = "commit"]
    /\ UNCHANGED << swaps, watcher, melts, rotating >>

\* update_mint_quote: commit() of the transaction, in its parts; the method
\* returns Ok(Some(amount)) when commit has returned Ok(()) and ends with
\* commit's panic when commit panics.
update_mint_quote_commit ==
    /\ mint_task.pc = "commit"
    /\ LET w == mint_task.w[1]
       IN  /\ commit(w) \/ commit_blinded_signatures(w) \/ commit_release(w)
           /\ mint_task' =
                 IF pc'[w] = "committed"
                 THEN [mint_task EXCEPT !.result = Ok(Some(mint_task.args[2])),
                                        !.pc = "returned"]
                 ELSE IF pc'[w] = "commit_panicked"
                 THEN [mint_task EXCEPT !.pc = "panicked"]
                 ELSE mint_task
    /\ UNCHANGED << swaps, watcher, melts, rotating >>

(* ------------------------------ inputs -------------------------------- *)

\* zip(outputs, blinded_signatures), keeping the pairs whose signature is Some:
\* the kept messages and their signatures, in the order of the request.
RECURSIVE restore_pairs(_, _)
restore_pairs(outputs, signatures) ==
    IF outputs = << >> \/ signatures = << >> THEN << >>
    ELSE (IF Head(signatures) = None
          THEN << >>
          ELSE << << Head(outputs), Head(signatures)[1] >> >>)
         \o restore_pairs(Tail(outputs), Tail(signatures))

RestoreResponse_unfiltered(outputs, signatures) ==
    LET pairs == restore_pairs(outputs, signatures)
    IN  [outputs |-> outputs,
         signatures |-> [i \in 1 .. Len(pairs) |-> pairs[i][2]],
         promises |-> Some([i \in 1 .. Len(pairs) |-> pairs[i][2]])]

RestoreResponse(outputs, signatures) ==
    LET pairs == restore_pairs(outputs, signatures)
    IN  [outputs |-> [i \in 1 .. Len(pairs) |-> pairs[i][1]],
         signatures |-> [i \in 1 .. Len(pairs) |-> pairs[i][2]],
         promises |-> Some([i \in 1 .. Len(pairs) |-> pairs[i][2]])]

\* restore, up to the await of localstore.get_blind_signatures (the
\* non-transactional read), called with the blinded secrets of the outputs.
restore(request) ==
    /\ mint_task = NoTask
    /\ db_get_blind_signatures_call([i \in 1 .. Len(request.outputs) |->
                                        request.outputs[i].blinded_secret])
    /\ mint_task' = [name |-> "restore", result |-> None, pc |-> "get_blind_signatures",
                     w |-> None, args |-> << request >>]
    /\ UNCHANGED << swaps, watcher, melts, rotating >>

\* get_blind_signatures goes on; when it returns, its result has one entry per
\* output (the assert_eq!) and restore returns the response.
restore_get_blind_signatures ==
    /\ mint_task.name = "restore"
    /\ mint_task.pc = "get_blind_signatures"
    /\ db_access_step
    /\ mint_task' = IF rpc' = "idle"
                    THEN [mint_task EXCEPT
                             !.result = Ok(RestoreResponse(mint_task.args[1].outputs, rop.result)),
                             !.pc = "returned"]
                    ELSE mint_task
    /\ UNCHANGED << swaps, watcher, melts, rotating >>

\* Amount::try_sum over the values of map at the keys ks.
RECURSIVE try_sum(_, _)
try_sum(map, ks) ==
    IF ks = {} THEN 0
    ELSE LET k == CHOOSE x \in ks : TRUE
         IN  map[k].amount + try_sum(map, ks \ {k})

\* The keys of the stored blind signatures of the keyset.
get_blind_signatures_for_keyset(keyset_id) ==
    {b \in DOMAIN blinded_signatures : blinded_signatures[b].keyset_id = keyset_id}

\* The Ys of the stored proofs of the keyset; their states are read under the
\* read guard of proofs.
get_proofs_by_keyset_id(keyset_id) ==
    {y \in DOMAIN proofs : proofs[y].keyset_id = keyset_id}

total_for_keyset_any_state(name, keyset_id) ==
    IF name = "total_issued"
    THEN try_sum(blinded_signatures, get_blind_signatures_for_keyset(keyset_id))
    ELSE try_sum(proofs, get_proofs_by_keyset_id(keyset_id))

\* The body of the loop of total_issued or of total_redeemed for one keyset.
total_for_keyset(name, keyset_id) ==
    IF name = "total_issued"
    THEN try_sum(blinded_signatures, get_blind_signatures_for_keyset(keyset_id))
    ELSE try_sum(proofs, {y \in get_proofs_by_keyset_id(keyset_id) :
                             MapGet(proof_state, y) = Some("Spent")})

\* total_issued and total_redeemed, up to the loop: the keyset infos are read.
\* args: the ids of the keysets still to visit, the map so far, and (history)
\* whether the store is as it was when the keyset infos were read.
total(name) ==
    /\ mint_task = NoTask
    /\ mint_task' = [name |-> name, result |-> None, pc |-> "for_keyset", w |-> None,
                     args |-> << DOMAIN keysets, EmptyMap, TRUE >>]
    /\ UNCHANGED << inner_vars, writer_vars, reader_vars, signatory_vars, manager_vars, swaps, watcher, melts, rotating >>

\* One passage of the loop, for the next keyset of the Vec (in any order).
total_keyset ==
    /\ mint_task.pc = "for_keyset"
    /\ \E id \in mint_task.args[1] :
          mint_task' = [mint_task EXCEPT
                           !.args = << @[1] \ {id},
                                       MapInsert(@[2], id, total_for_keyset(mint_task.name, id)),
                                       @[3] >>]
    /\ UNCHANGED << inner_vars, writer_vars, reader_vars, signatory_vars, manager_vars, swaps, watcher, melts, rotating >>

\* The loop is over: Ok(total_issued) or Ok(total_redeemed).
total_return ==
    /\ mint_task.pc = "for_keyset"
    /\ mint_task.args[1] = {}
    /\ mint_task' = [mint_task EXCEPT !.result = Ok(mint_task.args[2]), !.pc = "returned"]
    /\ UNCHANGED << inner_vars, writer_vars, reader_vars, signatory_vars, manager_vars, swaps, watcher, melts, rotating >>

\* History: a step of another task while a total is computed; the total's task
\* notes whether the store was changed.
BesideTotal ==
    /\ UNCHANGED << swaps, watcher, melts, rotating >>
    /\ mint_task' = IF mint_task.pc = "for_keyset" /\ inner_vars' # inner_vars
                    THEN [mint_task EXCEPT !.args = << @[1], @[2], FALSE >>]
                    ELSE mint_task

(* A swap request over the transaction API, for the input Ys: the states of
   the inputs are fetched, the request is rejected with TokenAlreadySpent when
   one is Spent or Pending, the inputs are marked Spent and the transaction is
   committed. The verification of the inputs, the fee, the insertion of the
   proofs and the signing of the outputs lie between these steps and do not
   touch the proof states. *)
swap_begin(s) ==
    /\ swaps[s].pc = "idle"
    /\ begin_transaction
    /\ swaps' = [swaps EXCEPT ![s] = [result |-> None, pc |-> "check", w |-> Some(writer_index)]]
    /\ UNCHANGED << mint_task, watcher, melts, rotating >>

\* The Transaction trait has no getter for proof states: they are fetched with
\* MintDatabase::get_proofs_states while the transaction is open.
swap_check(s, ys) ==
    /\ swaps[s].pc = "check"
    /\ LET states == db_get_proofs_states(ys)
       IN  swaps' = IF \E i \in 1 .. Len(states) : states[i] \in {Some("Pending"), Some("Spent")}
                    THEN [swaps EXCEPT ![s].result = Err("TokenAlreadySpent"),
                                       ![s].pc = "rollback"]
                    ELSE [swaps EXCEPT ![s].pc = "mark"]
    /\ UNCHANGED << inner_vars, writer_vars, reader_vars, signatory_vars, manager_vars,
                    mint_task, watcher, melts, rotating >>

\* The rejected request drops its transaction and returns the error.
swap_reject(s) ==
    /\ swaps[s].pc = "rollback"
    /\ rollback(swaps[s].w[1])
    /\ swaps' = [swaps EXCEPT ![s].pc = "returned"]
    /\ UNCHANGED << mint_task, watcher, melts, rotating >>

swap_mark(s, ys) ==
    /\ swaps[s].pc = "mark"
    /\ update_proofs_states(swaps[s].w[1], ys, "Spent")
    /\ swaps' = [swaps EXCEPT ![s].pc = "commit"]
    /\ UNCHANGED << mint_task, watcher, melts, rotating >>

\* commit, step by step; the request returns Ok when commit returns.
swap_commit(s) ==
    /\ swaps[s].pc = "commit"
    /\ LET w == swaps[s].w[1]
       IN  /\ commit(w) \/ commit_blinded_signatures(w) \/ commit_release(w)
           /\ swaps' = IF pc'[w] = "committed"
                       THEN [swaps EXCEPT ![s].result = Ok(<< >>), ![s].pc = "returned"]
                       ELSE IF pc'[w] = "commit_panicked"
                       THEN [swaps EXCEPT ![s].pc = "panicked"]
                       ELSE swaps
    /\ UNCHANGED << mint_task, watcher, melts, rotating >>

(* ----------------------- wait_for_paid_invoices ----------------------- *)

\* Everything but the watcher.
not_watcher == << inner_vars, writer_vars, reader_vars, signatory_vars, manager_vars, mint_task, swaps, melts, rotating >>

\* wait_for_paid_invoices, up to the JoinSet loop: a watcher task is spawned for
\* every backend whose is_wait_invoice_active() is false (the backends of idle).
wait_for_paid_invoices(idle) ==
    /\ ~ watcher.called
    /\ watcher' = [watcher EXCEPT !.pc = [b \in Backends |-> IF b \in idle THEN "select" ELSE "none"],
                                  !.called = TRUE]
    /\ UNCHANGED not_watcher

\* The watchers that wait in select! and have not been woken.
waiters == {b \in Backends : watcher.pc[b] = "select" /\ ~ watcher.notified[b]}

\* Notify::notify_waiters: every Notified future that waits is woken; no permit
\* is left for a future made later.
notify_waiters ==
    /\ watcher.shutdown = "none"
    /\ watcher' = [watcher EXCEPT !.shutdown = "notify_waiters",
                                  !.notified = [b \in Backends |-> b \in waiters]]
    /\ UNCHANGED not_watcher

\* Notify::notify_one: one Notified future that waits is woken; when none waits
\* a permit is left for the next one.
notify_one ==
    /\ watcher.shutdown = "none"
    /\ IF waiters = {}
       THEN watcher' = [watcher EXCEPT !.shutdown = "notify_one", !.permit = TRUE]
       ELSE \E b \in waiters :
               watcher' = [watcher EXCEPT !.shutdown = "notify_one", !.notified[b] = TRUE]
    /\ UNCHANGED not_watcher

\* select!, first branch: shutdown.notified() is ready; cancel_wait_invoice and
\* break. The task ends.
watcher_shutdown(b) ==
    /\ watcher.pc[b] = "select"
    /\ watcher.notified[b] \/ watcher.permit
    /\ watcher' = [watcher EXCEPT !.pc[b] = "ended",
                                  !.cancelled[b] = TRUE,
                                  !.permit = IF watcher.notified[b] THEN @ ELSE FALSE,
                                  !.notified[b] = FALSE]
    /\ UNCHANGED not_watcher

\* select!, second branch: wait_any_invoice() is ready, with the stream or with
\* an error. The Notified future of this passage is dropped: a notification of
\* notify_one it had got goes to another waiter or back into the permit, one
\* of notify_waiters is lost.
watcher_wait_any_invoice(b, ok) ==
    /\ watcher.pc[b] = "select"
    /\ LET forward == watcher.notified[b] /\ watcher.shutdown = "notify_one"
           others == waiters \ {b}
       IN  watcher' = [watcher EXCEPT
                          !.pc[b] = IF ok THEN "stream" ELSE "sleep",
                          !.notified = [o \in Backends |->
                                           IF o = b THEN FALSE
                                           ELSE IF forward /\ others # {} /\ o = CHOOSE x \in others : TRUE
                                           THEN TRUE
                                           ELSE @[o]],
                          !.permit = IF forward /\ others = {} THEN TRUE ELSE @]
    /\ UNCHANGED not_watcher

\* stream.next() gives a request lookup id: pay_mint_quote_for_request_id is
\* called (what it does to the store is left out).
stream_next(b) ==
    /\ watcher.pc[b] = "stream"
    /\ watcher' = [watcher EXCEPT !.pc[b] = "pay"]
    /\ UNCHANGED not_watcher

\* pay_mint_quote_for_request_id returns, Ok(()) or an error that is only
\* logged: back to stream.next().
pay_mint_quote_for_request_id(b) ==
    /\ watcher.pc[b] = "pay"
    /\ watcher' = [watcher EXCEPT !.pc[b] = "stream"]
    /\ UNCHANGED not_watcher

\* pay_mint_quote_for_request_id has a quote to move to Paid and commits its
\* transaction: commit panics after its merge, and the panic ends the watcher
\* task; the JoinSet gets the task's error.
pay_mint_quote_for_request_id_panics(b) ==
    /\ watcher.pc[b] = "pay"
    /\ watcher' = [watcher EXCEPT !.pc[b] = "panicked"]
    /\ UNCHANGED not_watcher

\* stream.next() gives None: the stream is over, back to select!.
stream_end(b) ==
    /\ watcher.pc[b] = "stream"
    /\ watcher' = [watcher EXCEPT !.pc[b] = "select"]
    /\ UNCHANGED not_watcher

\* The sleep of 5 seconds after an error is over: back to select!.
sleep_over(b) ==
    /\ watcher.pc[b] = "sleep"
    /\ watcher' = [watcher EXCEPT !.pc[b] = "select"]
    /\ UNCHANGED not_watcher

\* join_next() has given every task: wait_for_paid_invoices returns Ok(()).
wait_for_paid_invoices_return ==
    /\ watcher.called
    /\ ~ watcher.returned
    /\ \A b \in Backends : watcher.pc[b] \in {"none", "panicked", "ended"}
    /\ watcher' = [watcher EXCEPT !.returned = TRUE]
    /\ UNCHANGED not_watcher

\* Non-empty lists of distinct elements of S, of length at most 2.
ListsOf(S) == {<< x >> : x \in S} \cup {p \in S \X S : p[1] # p[2]}

OptionOf(S) == {None} \cup {Some(x) : x \in S}

\* Operations of a transaction other than commit and rollback.
WriterOperation(w) ==
    \/ \E u \in Uuids : get_mint_quote(w, u)
    \/ \E u \in Uuids : add_mint_quote(w, NewMintQuote(u))
    \/ \E u \in Uuids : get_mint_quote_by_request(w, u)
    \/ \E u \in Uuids : get_mint_quote_by_request_lookup_id(w, u)
    \/ \E u \in Uuids, s \in MintQuoteInputs : update_mint_quote_state(w, u, s)
    \/ \E b \in ListsOf(BlindedMessages), q \in OptionOf(Uuids) :
          add_blind_signatures(w, b, [i \in 1 .. Len(b) |-> NewBlindSignature(b[i])], q)
    \/ \E b \in ListsOf(BlindedMessages) : get_blind_signatures(w, b)
    \/ \E y \in ListsOf(Ys), q \in OptionOf(Uuids) :
          add_proofs(w, [i \in 1 .. Len(y) |-> NewProof(y[i])], q)
    \/ \E y \in ListsOf(Ys), s \in StateInputs : update_proofs_states(w, y, s)
    \/ \E u \in Uuids : get_melt_quote(w, u)
    \/ \E u \in Uuids : get_melt_request(w, u)
    \/ \E u \in Uuids, s \in MeltQuoteInputs : update_melt_quote_state(w, u, s)
    \/ lock_wait_step(w)

WriterEnd(w) ==
    \/ commit(w)
    \/ commit_blinded_signatures(w)
    \/ commit_release(w)
    \/ rollback(w)
    \/ drop_writer(w)

ReaderStep ==
    \/ \E u \in Uuids : db_get_mint_quote_call(u)
    \/ \E b \in ListsOf(BlindedMessages) : db_get_blind_signatures_call(b)
    \/ db_access_step
    \/ db_get_mint_quote_read

\* The database under transactions alone.
Next ==
    \/ begin_transaction /\ UNCHANGED mint_vars
    \/ \E w \in Writers : WriterOperation(w) /\ UNCHANGED mint_vars
    \/ \E w \in Writers : WriterEnd(w) /\ UNCHANGED mint_vars

Spec == Init /\ [][Next]_vars

\* The database under transactions and a task that reads outside any transaction.
ReaderNext ==
    \/ begin_transaction /\ UNCHANGED mint_vars
    \/ \E w \in Writers : WriterOperation(w) /\ UNCHANGED mint_vars
    \/ \E w \in Writers : WriterEnd(w) /\ UNCHANGED mint_vars
    \/ ReaderStep /\ UNCHANGED mint_vars

ReaderSpec == Init /\ [][ReaderNext]_vars

\* HashMap<CurrencyUnit, (u64, u8)>: a fee and a max_order for some of the units.
SupportedUnitsInputs == UNION {[S -> Fees \X Orders] : S \in SUBSET ConfiguredUnits}
\* HashMap<CurrencyUnit, DerivationPath>
CustomPathsInputs == {EmptyMap, [u \in CustomUnits |-> CustomPath]}
\* The ids of the stored keysets and one id that no keyset has.
UnknownId == << << >>, 0 >>
KeysetIdInputs == (DOMAIN keysets) \cup {UnknownId}
BlindedMessageInputs ==
    [keyset_id : KeysetIdInputs, amount : Amounts, blinded_secret : BlindedSecrets]

\* The signatory over the database's keyset tables, called by one caller.
SignatoryNext ==
    \/ \E su \in SupportedUnitsInputs, cp \in CustomPathsInputs : new(su, cp) /\ UNCHANGED manager_vars /\ UNCHANGED mint_vars
    \/ \E u \in Units, i \in Indexes, o \in Orders, f \in Fees, cp \in CustomPathsInputs :
          rotate_keyset(u, i, o, f, cp) /\ UNCHANGED manager_vars /\ UNCHANGED mint_vars
    \/ \E m \in BlindedMessageInputs : blind_sign(m) /\ UNCHANGED manager_vars /\ UNCHANGED mint_vars

SignatorySpec == Init /\ [][SignatoryNext]_vars

\* The secret key of (keyset_id, amount) of a stored keyset, whether or not the
\* keyset has a key pair for the amount.
KeyOf(keyset_id, amount) ==
    IF keyset_id \in DOMAIN keysets
    THEN MintKeyPair(keysets[keyset_id].derivation_path, amount)
    ELSE MintKeyPair(<< >>, amount)

\* A signature no key of the mint made.
Forged == << "C", << >>, 0 >>

Secrets == {1}
\* Plain secrets, and P2PK and HTLC secrets with a witness that meets the
\* conditions or not.
SecretKinds ==
    {<< "plain", TRUE >>, << "P2PK", TRUE >>, << "P2PK", FALSE >>,
     << "HTLC", TRUE >>, << "HTLC", FALSE >>}

\* Proofs under a stored or an unknown keyset, signed by the key of
\* (keyset_id, amount) or forged.
ProofInputs ==
    {[keyset_id |-> id, amount |-> a,
      c |-> IF signed THEN unblinded_signature(KeyOf(id, a), s) ELSE Forged,
      secret |-> s, kind |-> k[1], conditions_met |-> k[2]] :
        id \in KeysetIdInputs, a \in Amounts, s \in Secrets, k \in SecretKinds,
        signed \in BOOLEAN}

\* The signatory called to construct, rotate and verify proofs.
VerifyNext ==
    \/ \E su \in SupportedUnitsInputs, cp \in CustomPathsInputs : new(su, cp) /\ UNCHANGED manager_vars /\ UNCHANGED mint_vars
    \/ \E u \in Units, i \in Indexes, o \in Orders, f \in Fees, cp \in CustomPathsInputs :
          rotate_keyset(u, i, o, f, cp) /\ UNCHANGED manager_vars /\ UNCHANGED mint_vars
    \/ \E p \in ProofInputs : verify_proof(p) /\ UNCHANGED manager_vars /\ UNCHANGED mint_vars

VerifySpec == Init /\ [][VerifyNext]_vars

\* The signatory constructed again and again over the storage, with rotations
\* in between.
ColdStartNext ==
    \/ \E su \in SupportedUnitsInputs, cp \in CustomPathsInputs :
          new(su, cp) /\ UNCHANGED manager_vars /\ UNCHANGED mint_vars
    \/ \E u \in Units, i \in Indexes, o \in Orders, f \in Fees, cp \in CustomPathsInputs :
          rotate_keyset(u, i, o, f, cp) /\ UNCHANGED manager_vars /\ UNCHANGED mint_vars

ColdStartSpec == Init /\ [][ColdStartNext]_vars

\* The signatory called to construct, rotate and list its keysets.
KeysetNext ==
    \/ \E su \in SupportedUnitsInputs, cp \in CustomPathsInputs : new(su, cp) /\ UNCHANGED manager_vars /\ UNCHANGED mint_vars
    \/ \E u \in Units, i \in Indexes, o \in Orders, f \in Fees, cp \in CustomPathsInputs :
          rotate_keyset(u, i, o, f, cp) /\ UNCHANGED manager_vars /\ UNCHANGED mint_vars
    \/ pubkeys /\ UNCHANGED manager_vars /\ UNCHANGED mint_vars
    \/ keysets_call /\ UNCHANGED manager_vars /\ UNCHANGED mint_vars

KeysetSpec == Init /\ [][KeysetNext]_vars

\* The configuration of the signatory a manager is made for.
ManagerUnits == [u \in ConfiguredUnits |-> << 1, 1 >>]

\* The requests made through the manager: rotations of sat, signing and
\* verification for amount 1 under a stored keyset, the listings.
RequestInputs ==
    {[name |-> "rotate_keyset", args |-> << "sat", i, 1, 1, EmptyMap >>] : i \in Indexes}
    \cup {[name |-> "blind_sign", args |-> << m >>] :
            m \in {b \in BlindedMessageInputs :
                      b.amount = 1 /\ b.keyset_id \in DOMAIN keysets}}
    \cup {[name |-> "verify_proof", args |-> << p >>] :
            p \in {q \in ProofInputs :
                      /\ q.amount = 1 /\ q.kind = "plain" /\ q.c # Forged
                      /\ q.keyset_id \in DOMAIN keysets}}
    \cup {[name |-> "keysets", args |-> << >>], [name |-> "pubkeys", args |-> << >>]}

\* The signatory behind a SignatoryManager: constructed once, wrapped, and
\* called through the manager alone, by callers that await their replies.
ManagerNext ==
    \/ ~ Constructed /\ new(ManagerUnits, EmptyMap) /\ UNCHANGED manager_vars /\ UNCHANGED mint_vars
    \/ SignatoryManager_new /\ UNCHANGED mint_vars
    \/ \E r \in RequestInputs : submit(r.name, r.args) /\ UNCHANGED mint_vars
    \/ runner_recv /\ UNCHANGED mint_vars
    \/ \E r \in spawned : task_run(r) /\ UNCHANGED mint_vars

ManagerSpec == Init /\ [][ManagerNext]_vars

\* The runner is polled again whenever it can receive, and so is every spawned
\* task: the runtime keeps scheduling the tasks that are ready.
ManagerFairSpec ==
    /\ ManagerSpec
    /\ WF_vars(runner_recv /\ UNCHANGED mint_vars)
    /\ WF_vars((\E r \in spawned : task_run(r)) /\ UNCHANGED mint_vars)

\* ManagerNext with the manager dropped at any time.
ManagerDropNext ==
    \/ ~ Constructed /\ new(ManagerUnits, EmptyMap) /\ UNCHANGED manager_vars /\ UNCHANGED mint_vars
    \/ SignatoryManager_new /\ UNCHANGED mint_vars
    \/ \E r \in RequestInputs : submit(r.name, r.args) /\ UNCHANGED mint_vars
    \/ runner_recv /\ UNCHANGED mint_vars
    \/ \E r \in spawned : task_run(r) /\ UNCHANGED mint_vars
    \/ drop_manager /\ UNCHANGED mint_vars
    \/ runner_aborted /\ UNCHANGED mint_vars

ManagerDropSpec == Init /\ [][ManagerDropNext]_vars

\* The runtime keeps polling the spawned tasks and the runner, and cancels an
\* aborted task the next time it yields.
ManagerDropFairSpec ==
    /\ ManagerDropSpec
    /\ WF_vars(runner_recv /\ UNCHANGED mint_vars)
    /\ WF_vars((\E r \in spawned : task_run(r)) /\ UNCHANGED mint_vars)
    /\ WF_vars(runner_aborted /\ UNCHANGED mint_vars)

\* The melt quotes handle_internal_melt_mint is called with: one whose request
\* is that of the stored mint quote and one whose request no mint quote has.
InternalMeltInputs ==
    {[id |-> u, request |-> r, state |-> "Unpaid", amount |-> 2] : u \in Uuids, r \in Uuids \cup {0}}

\* The writers other than the task's own transaction.
OtherWriters == {w \in Writers : Some(w) # mint_task.w}

\* handle_internal_melt_mint beside transactions that update the mint quote.
SettleNext ==
    \/ \E q \in InternalMeltInputs, a \in {0, 1} : handle_internal_melt_mint(q, a)
    \/ update_mint_quote_begin
    \/ update_mint_quote_add
    \/ update_mint_quote_commit
    \/ mint_task.pc # "update_mint_quote" /\ begin_transaction /\ UNCHANGED mint_vars
    \/ /\ \E w \in OtherWriters, u \in Uuids, s \in MintQuoteInputs :
             update_mint_quote_state(w, u, s)
       /\ UNCHANGED mint_vars
    \/ (\E w \in OtherWriters : WriterEnd(w)) /\ UNCHANGED mint_vars

SettleSpec == Init /\ [][SettleNext]_vars

(* ------------------------------ claims -------------------------------- *)

AnyIds ==
    {AnyId_MintQuote(u) : u \in Uuids} \cup {AnyId_MeltQuote(u) : u \in Uuids}
        \cup {AnyId_BlindSignature(b) : b \in BlindedMessages}

\* Writer w is the recorded holder of the lock id.
Holds(w, id) == id \in DOMAIN locks /\ locks[id] = w
\* Writer w is the recorded holder of the lock id after the step.
HoldsNext(w, id) == id \in DOMAIN locks' /\ locks'[id] = w
\* A transaction that commit() or rollback() has consumed, before and after the step.
Consumed(w) == pc[w] \in {"commit_panicked", "rolledback"}
ConsumedNext(w) == pc'[w] \in {"commit_panicked", "rolledback"}
\* A transaction that exists and has neither been consumed nor dropped.
Live(w) == pc[w] \in {"idle", "lock_wait", "commit_blinded_signatures", "commit_release"}
\* Writer w is the first transaction and no other has been begun since.
Alone(w) == w = 0 /\ \A v \in Writers \ {w} : pc[v] = "unborn"

\* C1: lock mutual exclusion. The holder recorded for a lock id changes only by
\* being removed in the holder's own commit or rollback, so no second writer is
\* ever recorded while the first is unconsumed; and a writer's lock request
\* returns only with that writer recorded as the holder.
C1_LockMutualExclusion ==
    [][ /\ \A id \in DOMAIN locks :
              \/ HoldsNext(locks[id], id)
              \/ /\ id \notin DOMAIN locks'
                 /\ ~ Consumed(locks[id])
                 /\ ConsumedNext(locks[id])
        /\ \A w \in Writers :
              (pc[w] = "lock_wait" /\ (pc'[w] = "idle" \/ op'[w].ids # op[w].ids))
                  => HoldsNext(w, Head(op[w].ids)) ]_vars

\* C1 witness: the second writer is waiting in lock() for the mint quote that the
\* first writer, still between operations, holds.
C1_Witness ==
    /\ pc[0] = "idle"
    /\ changes[0] = EmptyChanges
    /\ pc[1] = "lock_wait"
    /\ op[1].name = "get_mint_quote_by_request"
    /\ Holds(0, Head(op[1].ids))

\* C2: rollback discards everything. When a transaction that ran alone is rolled
\* back, every non-transactional read returns what it returned when the
\* transaction began.
C2_RollbackDiscards ==
    [][ \A w \in Writers :
            (pc[w] = "idle" /\ pc'[w] = "rolledback" /\ Alone(w))
                => ReadView' = snapshot ]_vars

\* C3: a transaction dropped without commit() or rollback() is rolled back: it
\* holds no lock afterwards and, when it ran alone, none of its writes is visible.
C3_DropRollsBack ==
    \A w \in Writers :
        pc[w] = "dropped"
            => /\ \A id \in DOMAIN locks : locks[id] # w
               /\ Alone(w) => ReadView = snapshot

\* C4: commit() returns Ok(()); its buffered writes are merged into the store, no
\* lock of the writer is left and the lock entries of other writers are unchanged.
C4_CommitCompletes ==
    [][ \A w \in Writers :
          /\ (pc[w] = "idle" /\ pc'[w] = "commit_blinded_signatures")
                => \A u \in DOMAIN changes[w].mint_quotes :
                       MapGet(mint_quotes, u)' = Some(changes[w].mint_quotes[u])
          /\ (pc[w] = "commit_blinded_signatures" /\ pc'[w] = "commit_release")
                => \A b \in DOMAIN changes[w].blinded_signatures :
                       MapGet(blinded_signatures, b)' = Some(changes[w].blinded_signatures[b])
          /\ (pc[w] = "commit_release" /\ pc'[w] # "commit_release")
                => /\ pc'[w] = "committed"
                   /\ \A id \in DOMAIN locks' : locks'[id] # w
                   /\ \A id \in DOMAIN locks : locks[id] # w => HoldsNext(locks[id], id) ]_vars

\* C5: isolation of uncommitted writes. What non-transactional reads return
\* changes only in a step of some transaction's commit().
C5_Isolation ==
    [][ ReadView' # ReadView
            => \E w \in Writers :
                   /\ pc[w] \in {"idle", "commit_blinded_signatures"}
                   /\ pc'[w] \in {"commit_blinded_signatures", "commit_release"}
                   /\ pc'[w] # pc[w] ]_vars

\* C6: no read during an exclusive hold. The non-transactional get_mint_quote and
\* get_blind_signatures read the store for a record only while no transaction
\* holds the lock of that record's id.
C6_NoReadDuringExclusiveHold ==
    [][ /\ (rpc = "idle" /\ rpc' = "access_wait" /\ rop'.name = "get_blind_signatures")
              => \A i \in 1 .. Len(rop'.ids) : rop'.ids[i] \notin DOMAIN locks
        /\ (rpc = "read" /\ rpc' = "idle")
              => rop.ids[1] \notin DOMAIN locks ]_vars

\* C7: commit order is observable order. When a transactional getter of a mint
\* quote returns to a writer that has not written the quote itself, it returns
\* the value stored at that moment (the one last committed).
MintQuoteGetters == {"get_mint_quote_by_request_lookup_id", "get_mint_quote_by_request"}

C7_CommitOrderObserved ==
    [][ \A w \in Writers :
            (/\ pc[w] = "lock_wait"
             /\ pc'[w] = "idle"
             /\ op[w].name \in MintQuoteGetters
             /\ op[w].result[1].id \notin DOMAIN changes[w].mint_quotes)
                => op[w].result = MapGet(mint_quotes, op[w].result[1].id) ]_vars

\* C8: every record a transaction reads or updates is locked by it from the
\* return of the operation until commit or rollback.
C8_TouchedRecordsLocked ==
    [][ \A w \in Writers :
          /\ \A u \in Uuids :
                (\/ get_mint_quote(w, u)
                 \/ add_mint_quote(w, NewMintQuote(u))
                 \/ \E st \in MintQuoteInputs : update_mint_quote_state(w, u, st))
                    => HoldsNext(w, AnyId_MintQuote(u))
          /\ \A u \in DOMAIN melt_quotes :
                (\E st \in MeltQuoteInputs : update_melt_quote_state(w, u, st))
                    => HoldsNext(w, AnyId_MeltQuote(u))
          /\ \A b \in ListsOf(BlindedMessages), q \in OptionOf(Uuids) :
                add_blind_signatures(w, b, [i \in 1 .. Len(b) |-> NewBlindSignature(b[i])], q)
                    => \A i \in 1 .. Len(b) : HoldsNext(w, AnyId_BlindSignature(b[i]))
          /\ (pc[w] = "lock_wait" /\ pc'[w] = "idle")
                => HoldsNext(w, Head(op[w].ids))
          /\ \A id \in DOMAIN locks :
                (locks[id] = w /\ ~ ConsumedNext(w)) => HoldsNext(w, id) ]_vars

\* The keyset named by a blinded message is stored and is the active keyset of
\* its unit.
IsActive(keyset_id) ==
    /\ keyset_id \in DOMAIN keysets
    /\ get_active_keyset_id(keysets[keyset_id].unit) = Some(keyset_id)
\* The last call was blind_sign and it returned this result.
Returned(result) == sresult'.name = "blind_sign" /\ sresult'.result = result
\* The last call was blind_sign and it returned a signature for the message.
Signed(m) ==
    /\ sresult'.name = "blind_sign"
    /\ IsOk(sresult'.result)
    /\ sresult'.result[2].keyset_id = m.keyset_id
    /\ sresult'.result[2].amount = m.amount

\* C9 as stated: blind_sign under a stored keyset that is not the active keyset
\* of its unit fails with InactiveKeyset; after rotate_keyset for a unit,
\* blind_sign under the previously active keyset of the unit fails with
\* InactiveKeyset and blind_sign under the new keyset succeeds.
C9_AsStated ==
    [][ \A m \in BlindedMessageInputs :
          (sresult'.name = "blind_sign" /\ blind_sign(m)) =>
            /\ (m.keyset_id \in DOMAIN keysets /\ ~ IsActive(m.keyset_id))
                  => Returned(Err("InactiveKeyset"))
            /\ \A u \in Units :
                  last_rotation[u] # None =>
                    /\ last_rotation[u][1].previous = Some(m.keyset_id)
                          => Returned(Err("InactiveKeyset"))
                    /\ (/\ last_rotation[u][1].new = m.keyset_id
                        /\ m.amount \in KeyAmounts(keysets[m.keyset_id].max_order))
                          => Signed(m) ]_vars

\* C9: blind_sign under a stored keyset that is not the active keyset of its
\* unit fails with InactiveKeyset; after rotate_keyset for a unit, blind_sign
\* under the previously active keyset of the unit fails with InactiveKeyset when
\* the rotation produced a keyset with another id, and blind_sign under the new
\* keyset succeeds.
C9_InactiveKeysetRejected ==
    [][ \A m \in BlindedMessageInputs :
          (sresult'.name = "blind_sign" /\ blind_sign(m)) =>
            /\ (m.keyset_id \in DOMAIN keysets /\ ~ IsActive(m.keyset_id))
                  => Returned(Err("InactiveKeyset"))
            /\ \A u \in Units :
                  last_rotation[u] # None =>
                    /\ (/\ last_rotation[u][1].previous = Some(m.keyset_id)
                        /\ last_rotation[u][1].new # m.keyset_id)
                          => Returned(Err("InactiveKeyset"))
                    /\ (/\ last_rotation[u][1].new = m.keyset_id
                        /\ m.amount \in KeyAmounts(keysets[m.keyset_id].max_order))
                          => Signed(m) ]_vars

\* C9 witness: after a rotation of sat to the keyset at the custom path, which has
\* another id, blind_sign under the previously active keyset has returned
\* InactiveKeyset.
C9_Witness ==
    /\ sresult.name = "blind_sign"
    /\ sresult.result = Err("InactiveKeyset")
    /\ sresult.args[1].amount = 1
    /\ last_rotation["sat"] # None
    /\ last_rotation["sat"][1].previous = Some(sresult.args[1].keyset_id)
    /\ last_rotation["sat"][1].new = KeysetId(CustomPath, 2)
    /\ keysets[sresult.args[1].keyset_id].max_order = 2
    /\ \A id \in DOMAIN keysets : keysets[id].input_fee_ppk = 2

\* C10: blind_sign under the active keyset with an amount the keyset has no key
\* pair for (an amount that is not 2^i for some i below max_order) fails with
\* AmountKey; blind_sign with a keyset id that has no stored info fails with
\* UnknownKeySet.
C10_AmountKeyAndUnknownKeySet ==
    [][ \A m \in BlindedMessageInputs :
          (sresult'.name = "blind_sign" /\ blind_sign(m)) =>
            /\ (/\ IsActive(m.keyset_id)
                /\ m.amount \notin KeyAmounts(keysets[m.keyset_id].max_order))
                  => Returned(Err("AmountKey"))
            /\ m.keyset_id \notin DOMAIN keysets
                  => Returned(Err("UnknownKeySet")) ]_vars

\* C10 witness: blind_sign for amount 2 under the active keyset of a unit, a
\* keyset of max_order 1, has returned AmountKey.
C10_Witness ==
    /\ sresult.name = "blind_sign"
    /\ sresult.result = Err("AmountKey")
    /\ IsActive(sresult.args[1].keyset_id)
    /\ sresult.args[1].amount = 2
    /\ keysets[sresult.args[1].keyset_id].max_order = 1
    /\ keysets[sresult.args[1].keyset_id].input_fee_ppk = 2
    /\ keysets[sresult.args[1].keyset_id].derivation_path = CustomPath
    /\ scalls = 1

\* The proof is signed by the key its stored keyset has for its amount.
CorrectlySigned(p) ==
    /\ p.keyset_id \in DOMAIN keysets
    /\ p.amount \in KeyAmounts(keysets[p.keyset_id].max_order)
    /\ p.c = unblinded_signature(KeyOf(p.keyset_id, p.amount), p.secret)

\* C11: verify_proof of a correctly signed proof with a plain secret, whose
\* keyset is stored and is not the active keyset of its unit, succeeds.
C11_VerifiesUnderInactiveKeyset ==
    [][ \A p \in ProofInputs :
          (/\ sresult'.name = "verify_proof"
           /\ CorrectlySigned(p)
           /\ p.kind = "plain"
           /\ ~ IsActive(p.keyset_id)
           /\ verify_proof(p))
            => sresult'.result = Ok(<< >>) ]_vars

\* The keyset is the active keyset of the unit.
ActiveOf(unit, keyset_id) == get_active_keyset_id(unit) = Some(keyset_id)

\* C12: pubkeys() returns exactly the active keysets, one for every unit that
\* has an active keyset and no inactive one; keysets() returns one entry for
\* every stored keyset, the last one rotate_keyset created for a unit included,
\* with active = TRUE exactly for the active keyset of the entry's unit, so at
\* most one entry of a unit is active.
C12_PubkeysAndKeysets ==
    /\ sresult.name = "pubkeys" =>
          /\ IsOk(sresult.result)
          /\ {k.id : k \in sresult.result[2]} = active_keyset_ids
          /\ \A k \in sresult.result[2] :
                /\ ActiveOf(k.unit, k.id)
                /\ k = KeySet(generate_keyset(keysets[k.id]))
          /\ \A u \in DOMAIN active_keysets :
                Cardinality({k \in sresult.result[2] : k.unit = u}) = 1
    /\ sresult.name = "keysets" =>
          /\ IsOk(sresult.result)
          /\ {k.id : k \in sresult.result[2]} = DOMAIN keysets
          /\ Cardinality(sresult.result[2]) = Cardinality(DOMAIN keysets)
          /\ \A u \in Units :
                last_rotation[u] # None =>
                    \E k \in sresult.result[2] : k.id = last_rotation[u][1].new
          /\ \A k \in sresult.result[2] :
                /\ k.unit = keysets[k.id].unit
                /\ k.active <=> ActiveOf(k.unit, k.id)
          /\ \A k1, k2 \in sresult.result[2] :
                (k1.active /\ k2.active /\ k1.unit = k2.unit) => k1 = k2

\* C12 witness: keysets() has returned two keysets of sat, the one made at
\* construction inactive and the one at index 1 that rotate_keyset made active.
C12_Witness ==
    /\ sresult.name = "keysets"
    /\ scalls = 2
    /\ sresult.result[2] =
          {[id |-> KeysetId(<< 0, 0, 0 >>, 1), unit |-> "sat",
            input_fee_ppk |-> 1, active |-> FALSE],
           [id |-> KeysetId(<< 0, 0, 1 >>, 2), unit |-> "sat",
            input_fee_ppk |-> 2, active |-> TRUE]}
    /\ last_rotation["sat"] # None
    /\ last_rotation["sat"][1].new = KeysetId(<< 0, 0, 1 >>, 2)

\* The step is a rotate_keyset call that returned the info of the new keyset.
Rotated == sresult'.name = "rotate_keyset" /\ IsOk(sresult'.result)

\* C13 as stated: rotate_keyset stores the new keyset's info and makes the
\* keyset the active keyset of its unit; every keyset stored before stays listed
\* by keysets() with its id and, when it is of the rotated unit, is listed
\* inactive; the active keyset of every other unit is unchanged.
C13_AsStated ==
    [][ Rotated =>
          LET info == sresult'.result[2]
          IN  /\ MapGet(keysets', info.id) = Some(info)
              /\ MapGet(active_keysets', info.unit) = Some(info.id)
              /\ \A id \in DOMAIN keysets :
                    /\ \E k \in keysets_response' : k.id = id /\ k.unit = keysets[id].unit
                    /\ keysets[id].unit = info.unit =>
                          \A k \in keysets_response' : k.id = id => ~ k.active
              /\ \A u \in Units \ {info.unit} :
                    MapGet(active_keysets', u) = MapGet(active_keysets, u) ]_vars

\* C13: rotate_keyset stores the new keyset's info and makes the keyset the
\* active keyset of its unit; every keyset stored before stays listed by
\* keysets() with its id and, when it is of the rotated unit and has another id
\* than the new keyset, is listed inactive; the active keyset of every other
\* unit is unchanged.
C13_RotationFrame ==
    [][ Rotated =>
          LET info == sresult'.result[2]
          IN  /\ MapGet(keysets', info.id) = Some(info)
              /\ MapGet(active_keysets', info.unit) = Some(info.id)
              /\ \A id \in DOMAIN keysets :
                    /\ \E k \in keysets_response' : k.id = id /\ k.unit = keysets[id].unit
                    /\ (keysets[id].unit = info.unit /\ id # info.id) =>
                          \A k \in keysets_response' : k.id = id => ~ k.active
                    /\ keysets[id].unit # info.unit =>
                          \A k \in keysets_response' :
                              k.id = id => (k.active <=> ActiveOf(keysets[id].unit, id))
              /\ \A u \in Units \ {info.unit} :
                    MapGet(active_keysets', u) = MapGet(active_keysets, u) ]_vars

\* C13 witness: sat was rotated from its keyset at index 0 to a keyset at index 1
\* while usd has an active keyset of its own.
C13_Witness ==
    /\ sresult.name = "rotate_keyset"
    /\ scalls = 2
    /\ last_rotation["sat"] =
          Some([new |-> KeysetId(<< 0, 0, 1 >>, 1),
                previous |-> Some(KeysetId(<< 0, 0, 0 >>, 1))])
    /\ last_rotation["usd"] # None
    /\ active_keysets = [u \in Units |->
                            IF u = "sat" THEN KeysetId(<< 0, 0, 1 >>, 1)
                            ELSE KeysetId(<< 0, 2, 0 >>, 1)]
    /\ Cardinality(DOMAIN keysets) = 3
    /\ \A id \in DOMAIN keysets : keysets[id].input_fee_ppk = 1

\* C14: at most one stored keyset info of a unit has active = TRUE.
C14_OneStoredActivePerUnit ==
    \A k1, k2 \in get_keyset_infos :
        (k1.active /\ k2.active /\ k1.unit = k2.unit) => k1 = k2

\* Every stored keyset of the unit with the highest derivation_path_index has
\* the fee and max_order the unit is configured with.
\* and is at the path the configuration derives for its index.
HighestMatches(unit, supported_units, custom_paths) ==
    /\ keysets_by_unit(unit) # {}
    /\ \A h \in highest_index_keysets(unit) :
          /\ h.input_fee_ppk = supported_units[unit][1]
          /\ h.max_order = supported_units[unit][2]
          /\ h.derivation_path_index # None
          /\ Some(h.derivation_path) = path_for(unit, h.derivation_path_index[1], custom_paths)

\* C15: when the signatory is constructed over a storage in which the keyset of
\* a unit with the highest derivation_path_index has the configured fee and
\* max_order (and path), no keyset info is created for the unit and that keyset
\* is the unit's active keyset afterwards.
C15_IdenticalConfigNoRotation ==
    [][ \A su \in SupportedUnitsInputs, cp \in CustomPathsInputs :
          \A u \in DOMAIN su :
            (sresult'.name = "new" /\ HighestMatches(u, su, cp) /\ new(su, cp)) =>
                /\ {k.id : k \in keysets_by_unit(u)'} = {k.id : k \in keysets_by_unit(u)}
                /\ \E h \in highest_index_keysets(u) :
                      MapGet(active_keysets', u) = Some(h.id) ]_vars

\* The unit has stored keysets and every one of them with the highest
\* derivation_path_index differs from the configured fee or max_order.
HighestDiffers(unit, supported_units) ==
    /\ keysets_by_unit(unit) # {}
    /\ \A h \in highest_index_keysets(unit) :
          /\ h.derivation_path_index # None
          /\ \/ h.input_fee_ppk # supported_units[unit][1]
             \/ h.max_order # supported_units[unit][2]

\* The highest derivation_path_index of the stored keysets of the unit.
HighestIndex(unit) ==
    (CHOOSE h \in highest_index_keysets(unit) : TRUE).derivation_path_index[1]

UnitIds(unit) == {k.id : k \in keysets_by_unit(unit)}

\* C16 as stated: when the configured fee or max_order of a unit differs from
\* the unit's stored keyset with the highest derivation_path_index, construction
\* adds exactly one keyset to the unit's stored keysets, at index highest + 1,
\* and that keyset is the unit's active keyset afterwards.
C16_AsStated ==
    [][ \A su \in SupportedUnitsInputs, cp \in CustomPathsInputs :
          \A u \in DOMAIN su :
            (sresult'.name = "new" /\ HighestDiffers(u, su) /\ new(su, cp)) =>
                /\ Cardinality(UnitIds(u)' \ UnitIds(u)) = 1
                /\ \A id \in UnitIds(u)' \ UnitIds(u) :
                      /\ keysets'[id].derivation_path_index = Some(HighestIndex(u) + 1)
                      /\ MapGet(active_keysets', u) = Some(id) ]_vars

\* The ids of the unit's keysets whose info construction stored anew: the ids
\* not stored before and those whose info differs by more than the active flag.
StoredAnew(unit) ==
    {id \in UnitIds(unit)' :
        \/ id \notin UnitIds(unit)
        \/ [keysets'[id] EXCEPT !.active = FALSE] # [keysets[id] EXCEPT !.active = FALSE]}

\* C16: when the configured fee or max_order of a unit differs from the unit's
\* stored keyset with the highest derivation_path_index, construction stores
\* exactly one keyset info for the unit, with index highest + 1 and the
\* configured fee and max_order, and its keyset is the unit's active keyset
\* afterwards; the keyset is one not stored before unless the unit has a custom
\* path, and every keyset stored before is still stored.
C16_ChangedConfigRotatesOnce ==
    [][ \A su \in SupportedUnitsInputs, cp \in CustomPathsInputs :
          \A u \in DOMAIN su :
            (sresult'.name = "new" /\ HighestDiffers(u, su) /\ new(su, cp)) =>
                /\ Cardinality(StoredAnew(u)) = 1
                /\ UnitIds(u) \subseteq UnitIds(u)'
                /\ \A id \in StoredAnew(u) :
                      /\ keysets'[id].derivation_path_index = Some(HighestIndex(u) + 1)
                      /\ keysets'[id].input_fee_ppk = su[u][1]
                      /\ keysets'[id].max_order = su[u][2]
                      /\ keysets'[id].active
                      /\ MapGet(active_keysets', u) = Some(id)
                      /\ u \notin DOMAIN cp => id \notin UnitIds(u) ]_vars

\* C16 witness: construction over a storage whose one keyset of sat, at index 0,
\* has fee 1 while fee 2 is configured has stored a keyset at index 1 and made
\* it the active keyset of sat.
C16_Witness ==
    /\ sresult.name = "new"
    /\ scalls = 1
    /\ DOMAIN keysets = {KeysetId(<< 0, 0, 0 >>, 1), KeysetId(<< 0, 0, 1 >>, 1)}
    /\ keysets[KeysetId(<< 0, 0, 0 >>, 1)].input_fee_ppk = 1
    /\ ~ keysets[KeysetId(<< 0, 0, 0 >>, 1)].active
    /\ keysets[KeysetId(<< 0, 0, 1 >>, 1)].input_fee_ppk = 2
    /\ keysets[KeysetId(<< 0, 0, 1 >>, 1)].derivation_path_index = Some(1)
    /\ keysets[KeysetId(<< 0, 0, 1 >>, 1)].active
    /\ active_keysets = [u \in {"sat"} |-> KeysetId(<< 0, 0, 1 >>, 1)]

\* C17 as stated: the keyset rotate_keyset makes has the id of every stored
\* keyset of the same unit, index and max_order, whatever their fees and the
\* rotations before, and not the id of a stored keyset of the unit with another
\* index.
C17_AsStated ==
    [][ Rotated =>
          LET info == sresult'.result[2]
          IN  \A k \in get_keyset_infos :
                k.unit = info.unit =>
                    /\ (/\ k.derivation_path_index = info.derivation_path_index
                        /\ k.max_order = info.max_order) => k.id = info.id
                    /\ k.derivation_path_index # info.derivation_path_index
                          => k.id # info.id ]_vars

\* C17: the keyset rotate_keyset makes is at the unit's custom path or, without
\* one, at the path of the unit and index; it has the id and the keys of every
\* stored keyset of the same unit, path and max_order, whatever their fees and
\* the rotations before, and not the id of a stored keyset with another path or
\* max_order; so without custom paths a keyset of the unit with another index
\* has another id.
C17_KeysetDeterminism ==
    [][ Rotated =>
          LET info == sresult'.result[2]
          IN  /\ \/ info.derivation_path = CustomPath /\ info.unit \in CustomUnits
                 \/ Some(info.derivation_path) =
                        derivation_path_from_unit(info.unit, info.derivation_path_index[1])
              /\ \A k \in get_keyset_infos :
                    /\ (/\ k.unit = info.unit
                        /\ k.derivation_path = info.derivation_path
                        /\ k.max_order = info.max_order)
                          => /\ k.id = info.id
                             /\ generate_keyset(k) = generate_keyset(info)
                    /\ (\/ k.derivation_path # info.derivation_path
                        \/ k.max_order # info.max_order) => k.id # info.id
                    /\ (/\ k.unit = info.unit
                        /\ k.derivation_path # CustomPath
                        /\ info.derivation_path # CustomPath
                        /\ k.derivation_path_index # info.derivation_path_index)
                          => k.id # info.id ]_vars

\* C17 witness: sat, constructed with a keyset at index 0 with fee 1, was rotated
\* to index 0 with fee 2 and got the keyset with the same id again, and usd was
\* rotated before.
C17_Witness ==
    /\ sresult.name = "rotate_keyset"
    /\ scalls = 2
    /\ sresult.result[2].input_fee_ppk = 2
    /\ sresult.result[2].id = KeysetId(<< 0, 0, 0 >>, 2)
    /\ last_rotation["sat"] =
          Some([new |-> KeysetId(<< 0, 0, 0 >>, 2),
                previous |-> Some(KeysetId(<< 0, 0, 0 >>, 2))])
    /\ last_rotation["usd"] =
          Some([new |-> KeysetId(<< 0, 2, 1 >>, 1), previous |-> None])
    /\ keysets[KeysetId(<< 0, 2, 1 >>, 1)].input_fee_ppk = 1
    /\ Cardinality(DOMAIN keysets) = 2

\* The ids of the requests of a run.
CallIds == 1 .. (MaxCalls + MaxRefused)

\* Request id was refused by try_send.
Refused(id) == id \in 1 .. Len(callers) /\ callers[id] = << "returned", Err("SendError") >>

\* Request id is in the channel, not yet received by the runner.
Queued(id) == \E i \in 1 .. Len(pipeline) : pipeline[i].id = id

\* Request id has been received by the runner and handed to a task.
Taken(id) == \E r \in spawned : r.id = id

\* Request id was answered with the one output of its signatory call.
Answered(id) ==
    /\ id \in 1 .. Len(callers)
    /\ ~ Refused(id)
    /\ callers[id][1] = "returned"
    /\ issued[id].outputs = << callers[id][2] >>

(* C18: queue backpressure. The channel never holds more requests than its
   capacity; a submission made while it is full returns SendError in that
   same step, nothing is put in the channel or handed to a task and the
   signatory is not touched; a refused request is never in the manager and
   no signatory call is ever made for it; the requests accepted before are
   left as they were by the refusal, and an accepted request is at any time
   in the channel, with its task, or answered with the output of its
   signatory call. *)
C18_QueueBackpressure ==
    /\ [](Len(pipeline) <= ChannelCapacity)
    /\ [][ \A r \in RequestInputs :
              (Len(pipeline) = ChannelCapacity /\ submit(r.name, r.args)) =>
                 /\ callers' = Append(callers, << "returned", Err("SendError") >>)
                 /\ pipeline' = pipeline
                 /\ spawned' = spawned
                 /\ signatory_vars' = signatory_vars
                 /\ \A id \in 1 .. Len(issued) : issued'[id].outputs = issued[id].outputs ]_vars
    /\ [](\A id \in 1 .. Len(callers) :
             IF Refused(id)
             THEN id \notin in_manager /\ issued[id].outputs = << >>
             ELSE Queued(id) \/ Taken(id) \/ Answered(id))

\* The third submission found the channel full and was refused; the two
\* accepted before it have been answered by the signatory.
C18_Witness ==
    /\ Len(callers) = 3
    /\ Refused(3)
    /\ Answered(1)
    /\ Answered(2)

(* C19: with the manager alive, every request accepted into the channel is
   eventually answered, and the only way there is the runner receiving it
   and handing it to a task, and the task calling the signatory for it: the
   signatory is called for it exactly once, the call is the method the
   request names, and the caller gets the output of that call in the step
   of the call, and never a second or a different reply afterwards. *)
C19_AcceptedIsExecutedOnceAndAnswered ==
    /\ [](\A id \in 1 .. Len(callers) :
             /\ Len(issued[id].outputs) <= 1
             /\ (callers[id][1] = "returned" /\ ~ Refused(id)) =>
                   issued[id].outputs = << callers[id][2] >>)
    /\ [][ \A id \in 1 .. Len(callers) :
              /\ callers[id][1] = "returned" => callers'[id] = callers[id]
              /\ (Queued(id) /\ ~ Queued(id)') => (Head(pipeline).id = id /\ Taken(id)')
              /\ (Taken(id) /\ ~ Taken(id)') => issued'[id].outputs # issued[id].outputs
              /\ issued'[id].outputs # issued[id].outputs =>
                    /\ \E r \in spawned : r.id = id /\ sresult'.name = r.name
                    /\ scalls' = scalls + 1
                    /\ issued'[id].outputs = << sresult'.result >>
                    /\ callers[id] = << "awaiting" >>
                    /\ callers'[id] = << "returned", sresult'.result >> ]_vars
    /\ \A id \in CallIds : (Queued(id) \/ Taken(id)) ~> Answered(id)

\* Two requests were accepted, the signatory was called twice and both
\* callers have the outputs: the first an Ok, the second an error.
C19_Witness ==
    /\ Len(callers) = 2
    /\ scalls = 2
    /\ in_manager = {}
    /\ Answered(1)
    /\ Answered(2)
    /\ IsOk(callers[1][2])
    /\ ~ IsOk(callers[2][2])

(* C20: the manager is observationally the signatory for a caller that
   awaits each reply before it issues the next request. Such a request is
   never refused; the signatory is called for it on the very state the
   caller issued it in, which is the state the caller's previous call left,
   with the method the request names; and the caller's result is exactly
   the result of that signatory call, an error as much as a value. *)
C20_ManagerIsTheSignatory ==
    /\ [](\A id \in 1 .. Len(issued) : issued[id].sequential => ~ Refused(id))
    /\ [][ \A r \in spawned :
              (issued[r.id].sequential /\ task_run(r)) =>
                 /\ signatory_state = issued[r.id].state
                 /\ sresult'.name = r.name
                 /\ issued'[r.id].outputs = << sresult'.result >>
                 /\ callers'[r.id] = << "returned", sresult'.result >> ]_vars
    /\ [](\A id \in 1 .. Len(issued) :
             (issued[id].sequential /\ callers[id][1] = "returned") =>
                callers[id][2] = issued[id].outputs[1])

\* A caller issued a rotation, awaited its reply, and then asked for a
\* signature under the keyset the rotation retired: it has the rotation's
\* value and the signatory's InactiveKeyset error, as from direct calls.
C20_Witness ==
    /\ Len(callers) = 2
    /\ issued[1].sequential
    /\ issued[2].sequential
    /\ issued[2].state # issued[1].state
    /\ callers[1][1] = "returned"
    /\ IsOk(callers[1][2])
    /\ callers[2] = << "returned", Err("InactiveKeyset") >>
    /\ sresult.name = "blind_sign"

\* The caller of request id got RecvError.
Cancelled(id) == id \in 1 .. Len(callers) /\ callers[id] = << "returned", Err("RecvError") >>

(* C21: cancellation. Dropping the manager aborts the runner, and the abort
   takes effect; when it does, every request still in the channel is dropped
   with its reply channel and its waiting caller gets RecvError. For every
   request at most one reply is delivered: what a caller has got never
   changes, it is RecvError for a request the signatory was never called
   for, or else the one output of the request's signatory call, also when
   that call was made after the drop. *)
C21_Cancellation ==
    /\ [][ /\ drop_manager => runner' = "aborting"
           /\ (runner = "aborting" /\ runner' # runner) =>
                 /\ runner' = "aborted"
                 /\ pipeline' = << >>
                 /\ \A id \in 1 .. Len(callers) :
                       Queued(id) => (callers'[id][1] = "returned" /\ Cancelled(id)')
           /\ \A id \in 1 .. Len(callers) :
                 callers[id][1] = "returned" => callers'[id] = callers[id] ]_vars
    /\ [](\A id \in 1 .. Len(callers) :
             /\ Len(issued[id].outputs) <= 1
             /\ Cancelled(id) => (issued[id].outputs = << >> /\ id \notin in_manager)
             /\ (callers[id][1] = "returned" /\ ~ Refused(id) /\ ~ Cancelled(id)) =>
                   issued[id].outputs = << callers[id][2] >>)
    /\ (runner = "aborting") ~> (runner = "aborted" /\ pipeline = << >>)

\* The manager was dropped with one request handed to its task and one still
\* in the channel: the first caller has the signatory's output, of a call
\* made after the drop, and the second has RecvError.
C21_Witness ==
    /\ runner = "aborted"
    /\ Len(callers) = 2
    /\ Answered(1)
    /\ IsOk(callers[1][2])
    /\ Cancelled(2)
    /\ scalls = 1
    /\ in_manager = {}

\* Blinded secrets of restore requests, and the longest request.
RestoreMessages == {1, 2}
MaxOutputs == 2
NewBlindedMessage(b) == [keyset_id |-> 1, amount |-> 1, blinded_secret |-> b]
RestoreRequests ==
    {[outputs |-> [i \in DOMAIN f |-> NewBlindedMessage(f[i])]] :
        f \in UNION {[1 .. n -> RestoreMessages] : n \in 1 .. MaxOutputs}}

\* Mint::restore beside transactions that store and lock blind signatures and
\* commit.
RestoreNext ==
    \/ \E r \in RestoreRequests : restore(r)
    \/ restore_get_blind_signatures
    \/ begin_transaction /\ UNCHANGED mint_vars
    \/ /\ \E w \in Writers, b \in RestoreMessages :
             add_blind_signatures(w, << b >>, << NewBlindSignature(b) >>, None)
       /\ UNCHANGED mint_vars
    \/ /\ \E w \in Writers, b \in RestoreMessages : get_blind_signatures(w, << b >>)
       /\ UNCHANGED mint_vars
    \/ (\E w \in Writers : lock_wait_step(w)) /\ UNCHANGED mint_vars
    \/ /\ \E w \in Writers : commit(w) \/ commit_blinded_signatures(w) \/ commit_release(w)
       /\ UNCHANGED mint_vars

RestoreSpec == Init /\ [][RestoreNext]_vars

\* The call of handle_internal_melt_mint that found a mint quote with the melt
\* quote's request, neither Paid nor Issued and covered by the inputs, is over.
InternalSettlementOver ==
    /\ mint_task.name = "handle_internal_melt_mint"
    /\ mint_task.args # << >>
    /\ mint_task.pc \in {"returned", "panicked"}

(* C22: internal settlement. A call of handle_internal_melt_mint that finds no
   mint quote with the melt quote's request returns Ok(None) and changes no
   quote; a call that finds one that is neither Paid nor Issued and whose
   amount the inputs cover ends by returning Ok(Some(melt quote amount)),
   with the mint quote stored as Paid. *)
C22_InternalSettlement ==
    /\ [][ \A q \in InternalMeltInputs, a \in {0, 1} :
              (db_get_mint_quote_by_request(q.request) = None /\ handle_internal_melt_mint(q, a)) =>
                 /\ mint_task' = Return("handle_internal_melt_mint", Ok(None))
                 /\ mint_quotes' = mint_quotes
                 /\ melt_quotes' = melt_quotes ]_vars
    /\ [](InternalSettlementOver =>
             /\ mint_task.result = Ok(Some(mint_task.args[2]))
             /\ mint_quotes[mint_task.args[1].id].state = "Paid")

\* The keyset info a rotation of sat to the index makes.
TotalsKeysetInfo(index) ==
    create_new_keyset(path_for("sat", index, EmptyMap)[1], Some(index), "sat", 1, 1)[2]

\* Proofs and blind signatures 1 and 2 of the keyset of index 0, with amounts 1
\* and 2, and 3 of the keyset of index 1, with amount 1.
TotalsProof(y) ==
    [y |-> y, keyset_id |-> TotalsKeysetInfo(IF y = 3 THEN 1 ELSE 0).id,
     amount |-> IF y = 2 THEN 2 ELSE 1]
TotalsSignature(b) ==
    [keyset_id |-> TotalsKeysetInfo(IF b = 3 THEN 1 ELSE 0).id,
     amount |-> IF b = 2 THEN 2 ELSE 1, c |-> b]

\* Arguments of MintMemoryDatabase::new.
TotalsKeysets ==
    {<< >>, << TotalsKeysetInfo(0) >>, << TotalsKeysetInfo(0), TotalsKeysetInfo(1) >>}
TotalsPendingProofs ==
    {<< >>, << TotalsProof(3) >>, << TotalsProof(1), TotalsProof(3) >>}
TotalsSpentProofs == {<< >>, << TotalsProof(1), TotalsProof(2) >>}
TotalsBlindedSignatures == {EmptyMap, [b \in {1, 2, 3} |-> TotalsSignature(b)]}

\* MintMemoryDatabase::new: the pending proofs are inserted with Pending, then
\* the spent proofs with Spent.
MintMemoryDatabase_new(keysets_list, pending_proofs, spent_proofs, signatures) ==
    LET pending_ys == [i \in DOMAIN pending_proofs |-> pending_proofs[i].y]
        spent_ys == [i \in DOMAIN spent_proofs |-> spent_proofs[i].y]
    IN  /\ active_keysets = EmptyMap
        /\ keysets = [id \in {keysets_list[i].id : i \in DOMAIN keysets_list} |->
                         CHOOSE k \in {keysets_list[i] : i \in DOMAIN keysets_list} : k.id = id]
        /\ mint_quotes = [u \in Uuids |-> NewMintQuote(u)]
        /\ melt_quotes = [u \in Uuids |-> NewMeltQuote(u)]
        /\ proofs = InsertAll(InsertAll(EmptyMap, pending_ys, pending_proofs),
                              spent_ys, spent_proofs)
        /\ proof_state = InsertAll(InsertAll(EmptyMap, pending_ys,
                                             [i \in DOMAIN pending_ys |-> "Pending"]),
                                   spent_ys, [i \in DOMAIN spent_ys |-> "Spent"])
        /\ quote_proofs = EmptyMap
        /\ blinded_signatures = signatures
        /\ quote_signatures = EmptyMap
        /\ melt_requests = [u \in Uuids |-> NewMeltRequest(u)]
        /\ locks = EmptyMap
        /\ writer_index = 0
        /\ pc = [w \in Writers |-> "unborn"]
        /\ changes = [w \in Writers |-> EmptyChanges]
        /\ op = [w \in Writers |-> NoOp]
        /\ nops = 0
        /\ snapshot = << >>

TotalsInit ==
    /\ \E k \in TotalsKeysets, pending \in TotalsPendingProofs, spent \in TotalsSpentProofs, g \in TotalsBlindedSignatures : MintMemoryDatabase_new(k, pending, spent, g)
    /\ ReaderInit
    /\ SignatoryInit
    /\ ManagerInit
    /\ MintInit

\* Mint::total_issued and Mint::total_redeemed over a store that
\* MintMemoryDatabase::new built, beside the signatory and a transaction that
\* changes the state of proof 1.
TotalsNext ==
    \/ \E name \in {"total_issued", "total_redeemed"} : total(name)
    \/ total_keyset
    \/ total_return
    \/ new(EmptyMap, EmptyMap) /\ UNCHANGED manager_vars /\ BesideTotal
    \/ rotate_keyset("sat", 1, 1, 1, EmptyMap) /\ UNCHANGED manager_vars /\ BesideTotal
    \/ pubkeys /\ UNCHANGED manager_vars /\ BesideTotal
    \/ keysets_call /\ UNCHANGED manager_vars /\ BesideTotal
    \/ writer_index = 0 /\ begin_transaction /\ BesideTotal
    \/ (\E state \in State : update_proofs_states(0, << 1 >>, state)) /\ BesideTotal
    \/ (commit(0) \/ commit_blinded_signatures(0) \/ commit_release(0)) /\ BesideTotal

TotalsSpec == TotalsInit /\ [][TotalsNext]_vars

\* The blinded message has a stored blind signature.
HasStoredSignature(m) == m.blinded_secret \in DOMAIN blinded_signatures

(* C23: restore returns Ok with exactly the requested blinded messages that have
   a stored blind signature, in the order of the request, each with its stored
   signature at the same index; messages without a stored signature are left
   out, outputs and signatures have the same length, and no step of restore
   changes the store. *)
C23_Restore ==
    [][ /\ (mint_task'.name = "restore" /\ << reader_vars, mint_vars >>' # << reader_vars, mint_vars >>)
           => inner_vars' = inner_vars
        /\ (mint_task.pc = "get_blind_signatures" /\ mint_task'.pc = "returned") =>
              LET kept == SelectSeq(mint_task.args[1].outputs, HasStoredSignature)
                  response == mint_task'.result[2]
              IN  /\ IsOk(mint_task'.result)
                  /\ response.outputs = kept
                  /\ Len(response.signatures) = Len(response.outputs)
                  /\ \A i \in 1 .. Len(kept) :
                        response.signatures[i] = blinded_signatures[kept[i].blinded_secret] ]_vars

\* restore has returned for the request << 2, 1 >>, both with a stored signature.
C23_Witness ==
    /\ mint_task.name = "restore"
    /\ mint_task.pc = "returned"
    /\ mint_task.args[1].outputs = << NewBlindedMessage(2), NewBlindedMessage(1) >>
    /\ mint_task.result = Ok([outputs |-> << NewBlindedMessage(2), NewBlindedMessage(1) >>,
                              signatures |-> << NewBlindSignature(2), NewBlindSignature(1) >>,
                              promises |-> Some(<< NewBlindSignature(2), NewBlindSignature(1) >>)])

\* The sum a total should have for the keyset, over the store as it is.
ExpectedTotal(name, id) ==
    IF name = "total_issued"
    THEN try_sum(blinded_signatures,
                 {b \in DOMAIN blinded_signatures : blinded_signatures[b].keyset_id = id})
    ELSE try_sum(proofs, {y \in (DOMAIN proofs) \cap (DOMAIN proof_state) :
                             proofs[y].keyset_id = id /\ proof_state[y] = "Spent"})

(* C24: total_issued and total_redeemed return a map with exactly one entry per
   stored keyset info: the sum of the amounts of the stored blind signatures of
   the keyset, and the sum of the amounts of the stored proofs of the keyset
   whose state is Spent (proofs in another state or without a state count for
   nothing). Each entry is the sum over the store when the keyset is visited, so
   the map is the one of the store when no other task changed the store since
   the call. On a mint with no keysets both maps are empty, and pubkeys and
   keysets return empty lists. *)
C24_Totals ==
    [][ /\ (mint_task = NoTask /\ mint_task'.pc = "for_keyset") =>
              /\ mint_task'.args[1] = DOMAIN keysets
              /\ mint_task'.args[2] = EmptyMap
        /\ (mint_task.pc = "for_keyset" /\ mint_task'.pc = "for_keyset"
            /\ mint_task'.args[2] # mint_task.args[2]) =>
              \E id \in mint_task.args[1] :
                 /\ mint_task'.args[1] = mint_task.args[1] \ {id}
                 /\ mint_task'.args[2] = MapInsert(mint_task.args[2], id,
                                                   ExpectedTotal(mint_task.name, id))
        /\ (mint_task.pc = "for_keyset" /\ mint_task'.pc = "returned") =>
              /\ mint_task.args[1] = {}
              /\ mint_task'.result = Ok(mint_task.args[2])
              /\ mint_task.args[3] =>
                    mint_task'.result =
                       Ok([id \in DOMAIN keysets |-> ExpectedTotal(mint_task.name, id)])
        /\ (keysets = EmptyMap /\ active_keysets = EmptyMap
            /\ scalls' # scalls /\ sresult'.name \in {"keysets", "pubkeys"}) =>
              sresult'.result = Ok({}) ]_vars

\* total_redeemed has returned 2 for the keyset of index 0, whose proof 2 is
\* Spent and whose proof 1 was made Unspent, and 0 for the keyset of index 1,
\* whose proof 3 is Pending.
C24_Witness ==
    /\ mint_task.name = "total_redeemed"
    /\ mint_task.pc = "returned"
    /\ mint_task.args[3]
    /\ DOMAIN keysets = {TotalsKeysetInfo(0).id, TotalsKeysetInfo(1).id}
    /\ proof_state = (1 :> "Unspent") @@ (2 :> "Spent") @@ (3 :> "Pending")
    /\ mint_task.result = Ok((TotalsKeysetInfo(0).id :> 2) @@ (TotalsKeysetInfo(1).id :> 0))

\* Transactions that add proofs and set proof states to any state.
ProofStateNext ==
    \/ begin_transaction /\ UNCHANGED mint_vars
    \/ \E w \in Writers, y \in ListsOf(Ys), q \in OptionOf(Uuids) :
          add_proofs(w, [i \in 1 .. Len(y) |-> NewProof(y[i])], q) /\ UNCHANGED mint_vars
    \/ \E w \in Writers, y \in ListsOf(Ys), s \in State : update_proofs_states(w, y, s) /\ UNCHANGED mint_vars
    \/ \E w \in Writers : WriterEnd(w) /\ UNCHANGED mint_vars

ProofStateSpec == Init /\ [][ProofStateNext]_vars

(* C25: Spent is terminal. Once the state stored for a proof Y is Spent, no
   operation of any transaction (update_proofs_states with any state,
   add_proofs, commit, rollback) leaves Y with another state or without one. *)
C25_SpentIsTerminal ==
    [][ \A y \in DOMAIN proof_state :
           proof_state[y] = "Spent" =>
              (y \in DOMAIN proof_state' /\ proof_state'[y] = "Spent") ]_vars

\* Two concurrent swap requests with the same input proof.
SwapNext ==
    \/ \E s \in 1 .. 2 : swap_begin(s)
    \/ \E s \in 1 .. 2 : swap_check(s, << 1 >>)
    \/ \E s \in 1 .. 2 : swap_reject(s)
    \/ \E s \in 1 .. 2 : swap_mark(s, << 1 >>)
    \/ \E s \in 1 .. 2 : swap_commit(s)

SwapSpec == Init /\ [][SwapNext]_vars

\* The swap request is over: it returned, or its task panicked.
SwapOver(s) == swaps[s].pc \in {"returned", "panicked"}

(* C26: double-spend. Of two concurrent swap requests that share an input proof
   exactly one commits successfully and the other fails with TokenAlreadySpent:
   when both are over, one has returned Ok and the other
   Err(TokenAlreadySpent). *)
C26_DoubleSpend ==
    (SwapOver(1) /\ SwapOver(2)) =>
       \E s \in 1 .. 2 :
          /\ swaps[s].pc = "returned" /\ swaps[s].result = Ok(<< >>)
          /\ swaps[3 - s].pc = "returned" /\ swaps[3 - s].result = Err("TokenAlreadySpent")

\* What get_blind_signatures_for_quote returns for the quote over the table.
SignaturesForQuote(table, quote_id) ==
    IF quote_id \in DOMAIN table THEN table[quote_id] ELSE << >>

(* C27: replay safety of quote signatures. The list get_blind_signatures_for_quote
   returns for a quote changes only when a transaction commits, and then to the
   list that transaction passed to add_blind_signatures for the quote; a
   transaction that has not committed, or never commits, leaves it as it was. *)
C27_QuoteSignaturesReplaySafe ==
    [][ \A u \in Uuids :
           SignaturesForQuote(quote_signatures', u) # SignaturesForQuote(quote_signatures, u) =>
              \E w \in Writers :
                 /\ pc'[w] # pc[w]
                 /\ pc'[w] \in {"commit_blinded_signatures", "commit_release",
                                "commit_panicked", "committed"} ]_vars

\* The invoice watchers, the backends' streams and a shutdown notification sent
\* after wait_for_paid_invoices was called.
WatcherNext ==
    \/ \E idle \in SUBSET Backends : wait_for_paid_invoices(idle)
    \/ watcher.called /\ notify_waiters
    \/ watcher.called /\ notify_one
    \/ \E b \in Backends : watcher_shutdown(b)
    \/ \E b \in Backends, ok \in BOOLEAN : watcher_wait_any_invoice(b, ok)
    \/ \E b \in Backends : stream_next(b)
    \/ \E b \in Backends : pay_mint_quote_for_request_id(b)
    \/ \E b \in Backends : pay_mint_quote_for_request_id_panics(b)
    \/ \E b \in Backends : stream_end(b)
    \/ \E b \in Backends : sleep_over(b)
    \/ wait_for_paid_invoices_return

\* Every task runs when it can: a watcher that stays in select! with a ready
\* shutdown branch takes it, pay_mint_quote_for_request_id and the sleep return,
\* the JoinSet loop ends; a backend whose stream is open goes on giving
\* invoices. When a backend makes wait_any_invoice ready, ends its stream or
\* fails is up to the backend.
WatcherFairSpec ==
    /\ Init
    /\ [][WatcherNext]_vars
    /\ \A b \in Backends :
          /\ WF_vars(watcher_shutdown(b))
          /\ WF_vars(stream_next(b))
          /\ WF_vars(pay_mint_quote_for_request_id(b))
          /\ WF_vars(sleep_over(b))
    /\ WF_vars(wait_for_paid_invoices_return)

(* C28: shutdown cancels every watcher. After the shutdown notification every
   watcher task that wait_for_paid_invoices spawned eventually has called
   cancel_wait_invoice on its backend and has ended, and
   wait_for_paid_invoices has returned, whatever the watchers were doing when
   the notification was sent. *)
C28_ShutdownCancelsEveryWatcher ==
    (watcher.called /\ watcher.shutdown # "none") ~>
       (/\ \A b \in Backends : watcher.pc[b] # "none" =>
                                  (watcher.pc[b] = "ended" /\ watcher.cancelled[b])
        /\ watcher.returned)

\* Transactions that read blind signatures and melt requests, which lock what
\* they read, and commit or roll back.
LockNext ==
    \/ begin_transaction /\ UNCHANGED mint_vars
    \/ \E w \in Writers, b \in ListsOf(BlindedMessages) : get_blind_signatures(w, b) /\ UNCHANGED mint_vars
    \/ \E w \in Writers, u \in Uuids : get_melt_request(w, u) /\ UNCHANGED mint_vars
    \/ \E w \in Writers : lock_wait_step(w) /\ UNCHANGED mint_vars
    \/ \E w \in Writers : commit(w) /\ UNCHANGED mint_vars
    \/ \E w \in Writers : commit_blinded_signatures(w) /\ UNCHANGED mint_vars
    \/ \E w \in Writers : commit_release(w) /\ UNCHANGED mint_vars
    \/ \E w \in Writers : rollback(w) /\ UNCHANGED mint_vars

\* A task that waits, for a lock or for the write lock of a map, goes on as
\* soon as what it waits for stays free: lock() retries every 10 ms, tokio's
\* RwLock is fair. When a transaction calls commit or rollback is up to its owner.
LockFairSpec ==
    /\ Init
    /\ [][LockNext]_vars
    /\ \A w \in Writers :
          /\ WF_vars(lock_wait_step(w) /\ UNCHANGED mint_vars)
          /\ WF_vars(commit_blinded_signatures(w) /\ UNCHANGED mint_vars)
          /\ WF_vars(commit_release(w) /\ UNCHANGED mint_vars)

\* The transaction waits in lock() for an id that the holder holds.
WaitsFor(w, holder) ==
    /\ pc[w] = "lock_wait"
    /\ Head(op[w].ids) \in DOMAIN locks
    /\ locks[Head(op[w].ids)] = holder

\* commit() or rollback() of the transaction is under way or over.
Ending(w) == pc[w] \in {"commit_blinded_signatures", "commit_release", "commit_panicked", "rolledback"}

(* C29: liveness of lock waits. A commit or rollback that has begun always
   gets to release the transaction's locks, and a transaction that waits for a
   lock whose holder has called commit or rollback eventually leaves the wait
   with the lock; two transactions that call get_blind_signatures on the same
   blinded message, or get_melt_request on the same quote, are a case of it. *)
C29_LockWaitsEnd ==
    /\ \A w \in Writers : Ending(w) ~> (pc[w] \in {"commit_panicked", "rolledback"})
    /\ \A w \in Writers, holder \in Writers :
          (w # holder /\ WaitsFor(w, holder) /\ Ending(holder)) ~> (pc[w] # "lock_wait")

(* C30: re-entrant locking. A transaction between operations that holds the
   lock of a mint quote can call get_mint_quote, update_mint_quote_state and
   add_mint_quote on that quote without waiting, and stays the recorded holder
   after the operation. Writer ids are given out in order and never again: the
   holder of a lock is always a transaction that was begun, and the id of the
   next transaction is one no transaction has had, so a second transaction is
   never taken for the holder. *)
C30_ReentrantLocking ==
    /\ [](\A w \in Writers, u \in Uuids :
             (pc[w] = "idle" /\ nops < MaxOps /\ Holds(w, AnyId_MintQuote(u))) =>
                /\ ENABLED (get_mint_quote(w, u) /\ UNCHANGED mint_vars)
                /\ \A state \in MintQuoteInputs :
                      ENABLED (update_mint_quote_state(w, u, state) /\ UNCHANGED mint_vars)
                /\ ENABLED (add_mint_quote(w, NewMintQuote(u)) /\ UNCHANGED mint_vars))
    /\ [][ \A w \in Writers, u \in Uuids :
              (Holds(w, AnyId_MintQuote(u)) /\ pc[w] = "idle" /\ pc'[w] = "idle")
                 => HoldsNext(w, AnyId_MintQuote(u)) ]_vars
    /\ [](/\ \A id \in DOMAIN locks : locks[id] < writer_index
          /\ \A w \in Writers : pc[w] = "unborn" <=> w >= writer_index)

\* The only transaction has called two operations, both on mint quote 1, whose
\* lock it holds: the second call found the transaction itself as the holder.
C30_Witness ==
    /\ writer_index = 1
    /\ pc[0] = "idle"
    /\ nops = 2
    /\ locks = (AnyId_MintQuote(1) :> 0)
    /\ changes[0].mint_quotes = (1 :> [NewMintQuote(1) EXCEPT !.state = "Paid"])
    /\ changes[0].blinded_signatures = EmptyMap
    /\ proofs = EmptyMap
    /\ proof_state = EmptyMap
    /\ quote_signatures = EmptyMap
    /\ melt_quotes = [u \in Uuids |-> NewMeltQuote(u)]

(* C31: read-your-writes inside a transaction. When a getter by request or by
   request lookup id returns a mint quote that the same transaction has
   written (add_mint_quote or update_mint_quote_state), it returns the value
   the transaction wrote, the one get_mint_quote returns, not the committed
   one. *)
C31_ReadYourWrites ==
    [][ \A w \in Writers, u \in Uuids :
           (/\ pc[w] = "lock_wait"
            /\ pc'[w] = "idle"
            /\ op[w].name \in {"get_mint_quote_by_request_lookup_id", "get_mint_quote_by_request"}
            /\ op[w].result # None
            /\ op[w].result[1].id = u
            /\ u \in DOMAIN changes[w].mint_quotes)
              => op[w].result = writer_read_mint_quote(w, u) ]_vars

(* ----------------------- mint quote state machine --------------------- *)

\* The payment notification's transition inside its transaction: the quote is
\* read under its lock; one that is Paid or Issued is left as it is, any other
\* becomes Paid.
pay_mint_quote(w, quote_id) ==
    /\ writer_read_mint_quote(w, quote_id) # None
    /\ writer_read_mint_quote(w, quote_id)[1].state \notin {"Paid", "Issued"}
    /\ update_mint_quote_state(w, quote_id, "Paid")

\* The issuance's transition inside its transaction: a Paid quote becomes Issued.
issue_mint_quote(w, quote_id) ==
    /\ writer_read_mint_quote(w, quote_id) # None
    /\ writer_read_mint_quote(w, quote_id)[1].state = "Paid"
    /\ update_mint_quote_state(w, quote_id, "Issued")

\* A whole request handled by another task of the mint, from begin_transaction
\* to the merge and release of its commit, seen as one step: it takes place
\* while no transaction holds the quote's lock, and moves the quote from one of
\* the states `from` to the state `to`.
handled_mint_quote(quote_id, from, to) ==
    /\ access(AnyId_MintQuote(quote_id))
    /\ quote_id \in DOMAIN mint_quotes
    /\ mint_quotes[quote_id].state \in from
    /\ mint_quotes' = [mint_quotes EXCEPT ![quote_id].state = to]
    /\ UNCHANGED << active_keysets, keysets, melt_quotes, proofs, proof_state, quote_proofs,
                    blinded_signatures, quote_signatures, melt_requests >>
    /\ UNCHANGED << writer_vars, reader_vars, signatory_vars, manager_vars, mint_vars >>

\* handle_internal_melt_mint beside payment notifications and issuances.
QuoteStateNext ==
    \/ \E q \in InternalMeltInputs, a \in {0, 1} : handle_internal_melt_mint(q, a)
    \/ update_mint_quote_begin
    \/ update_mint_quote_add
    \/ update_mint_quote_commit
    \/ mint_task.pc # "update_mint_quote" /\ begin_transaction /\ UNCHANGED mint_vars
    \/ (\E w \in OtherWriters, u \in Uuids : pay_mint_quote(w, u)) /\ UNCHANGED mint_vars
    \/ (\E w \in OtherWriters, u \in Uuids : issue_mint_quote(w, u)) /\ UNCHANGED mint_vars
    \/ /\ \E w \in OtherWriters : commit(w) \/ commit_blinded_signatures(w) \/ commit_release(w)
       /\ UNCHANGED mint_vars
    \/ \E u \in Uuids : handled_mint_quote(u, {"Unpaid", "Pending"}, "Paid")
    \/ \E u \in Uuids : handled_mint_quote(u, {"Paid"}, "Issued")

QuoteStateSpec == Init /\ [][QuoteStateNext]_vars

\* The place of a mint quote state in Unpaid -> Paid -> Issued (Pending beside Unpaid).
StateRank(state) == IF state = "Issued" THEN 2 ELSE IF state = "Paid" THEN 1 ELSE 0

(* C32: mint quote states only move forward. Under payment notifications,
   internal settlement and issuance in any order, no step moves a stored mint
   quote back (an Issued quote stays Issued, a Paid one becomes at most
   Issued), and the write of an internal settlement leaves a quote that is
   already Paid or Issued as it is. *)
C32_QuoteStatesMoveForward ==
    [][ \A u \in Uuids :
           /\ StateRank(mint_quotes'[u].state) >= StateRank(mint_quotes[u].state)
           /\ (mint_task.pc = "commit" /\ mint_task'.pc # mint_task.pc
               /\ mint_quotes[u].state \in {"Paid", "Issued"})
                 => mint_quotes'[u].state = mint_quotes[u].state ]_vars

\* The mint quote handle_internal_melt_mint finds for the melt quote.
MatchingMintQuote(q) == db_get_mint_quote_by_request(q.request)

\* The call made in the step has returned the error and left the quotes alone.
FailsWith(error) ==
    /\ mint_task' = Return("handle_internal_melt_mint", Err(error))
    /\ mint_quotes' = mint_quotes
    /\ melt_quotes' = melt_quotes

(* C33 as stated: handle_internal_melt_mint fails with RequestAlreadyPaid when
   the mint quote matching the melt request is Paid or Issued, and with
   InsufficientFunds when the inputs sum to less than the mint quote's amount,
   whatever the state of the quote; in both cases no quote changes. *)
C33_SettlementErrors_AsStated ==
    [][ \A q \in InternalMeltInputs, a \in {0, 1} :
           (MatchingMintQuote(q) # None /\ handle_internal_melt_mint(q, a)) =>
              /\ MatchingMintQuote(q)[1].state \in {"Paid", "Issued"}
                    => FailsWith("RequestAlreadyPaid")
              /\ MintQuote_amount(MatchingMintQuote(q)[1]) > a
                    => FailsWith("InsufficientFunds") ]_vars

(* C33, amended: handle_internal_melt_mint fails with RequestAlreadyPaid when
   the mint quote matching the melt request is Paid or Issued, whatever the
   inputs, and with InsufficientFunds when that quote is neither Paid nor
   Issued and the inputs sum to less than its amount; in both cases the call
   is over and no mint quote or melt quote changes. *)
C33_SettlementErrors ==
    [][ \A q \in InternalMeltInputs, a \in {0, 1} :
           (MatchingMintQuote(q) # None /\ handle_internal_melt_mint(q, a)) =>
              /\ MatchingMintQuote(q)[1].state \in {"Paid", "Issued"}
                    => FailsWith("RequestAlreadyPaid")
              /\ (/\ MatchingMintQuote(q)[1].state \notin {"Paid", "Issued"}
                  /\ MintQuote_amount(MatchingMintQuote(q)[1]) > a)
                    => FailsWith("InsufficientFunds") ]_vars

\* A call for a melt quote whose mint quote another transaction had moved to
\* Paid has failed with RequestAlreadyPaid.
C33_Witness ==
    /\ mint_task = Return("handle_internal_melt_mint", Err("RequestAlreadyPaid"))
    /\ mint_quotes[1].state = "Paid"
    /\ writer_index = 1
    /\ pc[0] = "commit_panicked"
    /\ nops = 1

(* ------------------- concurrent internal settlements ------------------ *)

\* handle_internal_melt_mint called for the melt request m, up to its call of
\* update_mint_quote: as handle_internal_melt_mint above, for one of two
\* requests that are handled at the same time.
melt_handle_internal_melt_mint(m, melt_quote, inputs_amount) ==
    /\ melts[m].pc = "idle"
    /\ LET found == db_get_mint_quote_by_request(melt_quote.request)
       IN  melts' = [melts EXCEPT ![m] =
              IF found = None
              THEN [NoMelt EXCEPT !.result = Ok(None), !.pc = "returned"]
              ELSE IF found[1].state \in {"Paid", "Issued"}
              THEN [NoMelt EXCEPT !.result = Err("RequestAlreadyPaid"), !.pc = "returned"]
              ELSE IF MintQuote_amount(found[1]) > inputs_amount
              THEN [NoMelt EXCEPT !.result = Err("InsufficientFunds"), !.pc = "returned"]
              ELSE [NoMelt EXCEPT !.pc = "update_mint_quote",
                                  !.args = << [found[1] EXCEPT !.state = "Paid"], melt_quote.amount >>]]
    /\ UNCHANGED << inner_vars, writer_vars, reader_vars, signatory_vars, manager_vars,
                    mint_task, swaps, watcher, rotating >>

\* update_mint_quote of the melt request m: begin_transaction.
melt_update_mint_quote_begin(m) ==
    /\ melts[m].pc = "update_mint_quote"
    /\ begin_transaction
    /\ melts' = [melts EXCEPT ![m].pc = "add_mint_quote", ![m].w = Some(writer_index)]
    /\ UNCHANGED << mint_task, swaps, watcher, rotating >>

\* update_mint_quote of the melt request m: add_mint_quote(quote).
melt_update_mint_quote_add(m) ==
    /\ melts[m].pc = "add_mint_quote"
    /\ add_mint_quote(melts[m].w[1], melts[m].args[1])
    /\ melts' = [melts EXCEPT ![m].pc = "commit"]
    /\ UNCHANGED << mint_task, swaps, watcher, rotating >>

\* update_mint_quote of the melt request m: commit(), in its parts.
melt_update_mint_quote_commit(m) ==
    /\ melts[m].pc = "commit"
    /\ LET w == melts[m].w[1]
       IN  /\ commit(w) \/ commit_blinded_signatures(w) \/ commit_release(w)
           /\ melts' =
                 IF pc'[w] = "committed"
                 THEN [melts EXCEPT ![m].result = Ok(Some(melts[m].args[2])),
                                    ![m].pc = "returned"]
                 ELSE IF pc'[w] = "commit_panicked"
                 THEN [melts EXCEPT ![m].pc = "panicked"]
                 ELSE melts
    /\ UNCHANGED << mint_task, swaps, watcher, rotating >>

\* Two melt requests handled at the same time, beside payment notifications.
MeltNext ==
    \/ \E m \in 1 .. 2, q \in InternalMeltInputs, a \in {0, 1} : melt_handle_internal_melt_mint(m, q, a)
    \/ \E m \in 1 .. 2 : melt_update_mint_quote_begin(m)
    \/ \E m \in 1 .. 2 : melt_update_mint_quote_add(m)
    \/ \E m \in 1 .. 2 : melt_update_mint_quote_commit(m)
    \/ \E u \in Uuids : handled_mint_quote(u, {"Unpaid", "Pending"}, "Paid")

MeltSpec == Init /\ [][MeltNext]_vars

\* The melt request m was settled internally: it passed the checks and the
\* commit of its update_mint_quote has merged its Paid mint quote into the store.
SettledInternally(m) ==
    /\ melts[m].args # << >>
    /\ melts[m].pc \in {"returned", "panicked"}

(* C34: a mint quote is settled internally at most once. Of two melt requests
   handled at the same time whose melt quotes carry the request of the same
   mint quote, when one has been settled internally and the other is over, the
   other has failed with RequestAlreadyPaid (or, with too small inputs, with
   InsufficientFunds): never are both settled. *)
C34_SettledAtMostOnce ==
    \A m \in 1 .. 2, n \in 1 .. 2 :
       (/\ m # n
        /\ SettledInternally(m)
        /\ melts[n].pc \in {"returned", "panicked"}
        /\ melts[n].result # Ok(None))
          => /\ ~ SettledInternally(n)
             /\ melts[n].result \in {Err("RequestAlreadyPaid"), Err("InsufficientFunds")}

(* C35: after MemorySignatory construction the stored flags agree with the
   active table. A stored keyset info has active = TRUE exactly when its id is
   the active keyset id of its unit, and every keyset of a unit that is not in
   supported_units is inactive and is the active keyset of no unit. *)
C35_FlagsAgreeWithActiveTable ==
    [][ \A su \in SupportedUnitsInputs, cp \in CustomPathsInputs :
           new(su, cp) =>
              \A k \in get_keyset_infos' :
                 /\ k.active <=> (MapGet(active_keysets', k.unit) = Some(k.id))
                 /\ k.unit \notin DOMAIN su =>
                       /\ ~ k.active
                       /\ \A u \in Units : MapGet(active_keysets', u) # Some(k.id) ]_vars

(* ------------------------ concurrent rotations ------------------------ *)

\* rotate_keyset that creates the keyset without storing its info.
rotate_keyset_not_stored(r, unit, derivation_path_index, max_order, input_fee_ppk, custom_paths) ==
    /\ Constructed
    /\ SignatoryCalled
    /\ rotating[r] = None
    /\ LET derivation_path == path_for(unit, derivation_path_index, custom_paths)
       IN  /\ derivation_path # None
           /\ rotating' = [rotating EXCEPT ![r] =
                 Some(create_new_keyset(derivation_path[1], Some(derivation_path_index),
                                        unit, max_order, input_fee_ppk))]
    /\ UNCHANGED << inner_vars, writer_vars, reader_vars, signatory_keysets, sresult,
                    last_rotation, manager_vars, mint_task, swaps, watcher, melts >>

\* rotate_keyset, the call r of two made at the same time, up to its first call
\* of the storage: the keyset is created and add_keyset_info stores its info.
rotate_keyset_add_keyset_info(r, unit, derivation_path_index, max_order, input_fee_ppk, custom_paths) ==
    /\ Constructed
    /\ SignatoryCalled
    /\ rotating[r] = None
    /\ LET derivation_path == path_for(unit, derivation_path_index, custom_paths)
       IN  /\ derivation_path # None
           /\ LET created == create_new_keyset(derivation_path[1], Some(derivation_path_index),
                                               unit, max_order, input_fee_ppk)
              IN  /\ keysets' = add_keyset_info(keysets, created[2])
                  /\ rotating' = [rotating EXCEPT ![r] = Some(created)]
    /\ UNCHANGED << active_keysets, mint_quotes, melt_quotes, proofs, proof_state, quote_proofs,
                    blinded_signatures, quote_signatures, melt_requests,
                    writer_vars, reader_vars, signatory_keysets, sresult, last_rotation,
                    manager_vars, mint_task, swaps, watcher, melts >>

\* rotate_keyset, the rest of the call r: set_active_keyset, the keyset is
\* cached and its info returned.
rotate_keyset_set_active_keyset(r) ==
    /\ rotating[r] # None
    /\ LET created == rotating[r][1]
           unit == created[2].unit
           id == created[2].id
       IN  /\ active_keysets' = set_active_keyset(active_keysets, unit, id)
           /\ signatory_keysets' = MapInsert(signatory_keysets, id, created[1])
           /\ sresult' = [name |-> "rotate_keyset",
                          result |-> Ok(created[2]),
                          args |-> << unit >>]
           /\ last_rotation' = [last_rotation EXCEPT ![unit] =
                                   Some([new |-> id,
                                         previous |-> get_active_keyset_id(unit)])]
    /\ rotating' = [rotating EXCEPT ![r] = None]
    /\ UNCHANGED << keysets, mint_quotes, melt_quotes, proofs, proof_state, quote_proofs,
                    blinded_signatures, quote_signatures, melt_requests,
                    writer_vars, reader_vars, scalls,
                    manager_vars, mint_task, swaps, watcher, melts >>

\* The signatory constructed (at start, and again when no call is in
\* progress) and rotated by two callers at the same time.
RotationNext ==
    \/ \E su \in SupportedUnitsInputs, cp \in CustomPathsInputs :
          /\ \A r \in 1 .. 2 : rotating[r] = None
          /\ new(su, cp)
          /\ UNCHANGED manager_vars
          /\ UNCHANGED mint_vars
    \/ \E r \in 1 .. 2, u \in Units, i \in Indexes, o \in Orders, f \in Fees, cp \in CustomPathsInputs :
          rotate_keyset_add_keyset_info(r, u, i, o, f, cp)
    \/ \E r \in 1 .. 2 : rotate_keyset_set_active_keyset(r)

RotationSpec == Init /\ [][RotationNext]_vars

(* C36: in every state, also between the two storage calls of a rotate_keyset
   and with two rotations of the same unit in progress, every unit that has an
   active keyset id has a stored keyset info with that id and that unit. *)
C36_ActiveIdIsStored ==
    \A u \in DOMAIN active_keysets :
        /\ active_keysets[u] \in DOMAIN keysets
        /\ keysets[active_keysets[u]].id = active_keysets[u]
        /\ keysets[active_keysets[u]].unit = u

\* Two rotations of sat to different keysets are in progress: both infos are
\* stored and the active keyset of sat is still the one the construction made.
C36_Witness ==
    /\ rotating[1] # None
    /\ rotating[2] # None
    /\ rotating[1][1][2].unit = "sat"
    /\ rotating[2][1][2].unit = "sat"
    /\ rotating[1][1][2].id = KeysetId(<< 0, 0, 1 >>, 1)
    /\ rotating[2][1][2].id = KeysetId(<< 0, 0, 1 >>, 2)
    /\ active_keysets = ("sat" :> KeysetId(<< 0, 0, 0 >>, 1))
    /\ Cardinality(DOMAIN keysets) = 3
    /\ \A id \in DOMAIN keysets : keysets[id].input_fee_ppk = 1

(* C37: keyset infos are append-only. No step of a rotate_keyset call or of a
   restart removes a stored keyset info, and no field of a stored info other
   than active changes, also when rotate_keyset is called again with the unit,
   index and max_order of a stored keyset and another fee. *)
C37_KeysetInfosAppendOnly ==
    [][ \A id \in DOMAIN keysets :
           /\ id \in DOMAIN keysets'
           /\ [keysets'[id] EXCEPT !.active = keysets[id].active] = keysets[id] ]_vars

(* --------------------------- get_keyset_info --------------------------- *)

\* KeysetIdentifier: Unit(unit) | Id(id).
KeysetIdentifier_Unit(unit) == << "Unit", unit >>
KeysetIdentifier_Id(id) == << "Id", id >>

\* get_keyset_info that reports a unit without an active keyset as an unknown keyset.
MemorySignatory_get_keyset_info_unknown(keyset_id) ==
    LET id == IF keyset_id[1] = "Id" THEN Some(keyset_id[2]) ELSE get_active_keyset_id(keyset_id[2])
    IN  IF id = None \/ get_keyset_info(id[1]) = None
        THEN Err("UnknownKeySet")
        ELSE Ok(get_keyset_info(id[1])[1])

\* MemorySignatory::get_keyset_info: a unit is resolved to its active keyset
\* id, Err(UnsupportedUnit) when it has none; then the stored info of the id,
\* Err(UnknownKeySet) when none is stored.
MemorySignatory_get_keyset_info(keyset_id) ==
    LET id == IF keyset_id[1] = "Id" THEN Some(keyset_id[2]) ELSE get_active_keyset_id(keyset_id[2])
    IN  IF id = None
        THEN Err("UnsupportedUnit")
        ELSE IF get_keyset_info(id[1]) = None
        THEN Err("UnknownKeySet")
        ELSE Ok(get_keyset_info(id[1])[1])

\* The call of get_keyset_info on the signatory.
get_keyset_info_call(keyset_id) ==
    /\ Constructed
    /\ SignatoryCalled
    /\ sresult' = [name |-> "get_keyset_info",
                   result |-> MemorySignatory_get_keyset_info(keyset_id),
                   args |-> << keyset_id >>]
    /\ UNCHANGED << inner_vars, writer_vars, reader_vars, signatory_keysets, last_rotation >>

\* The identifiers get_keyset_info is called with: every unit, every stored id
\* and an id that is not stored.
KeysetIdentifierInputs ==
    {KeysetIdentifier_Unit(u) : u \in Units} \cup {KeysetIdentifier_Id(id) : id \in KeysetIdInputs}

\* The signatory constructed, rotated and asked for keyset infos.
KeysetInfoNext ==
    \/ \E su \in SupportedUnitsInputs, cp \in CustomPathsInputs : new(su, cp) /\ UNCHANGED manager_vars /\ UNCHANGED mint_vars
    \/ \E u \in Units, i \in Indexes, o \in Orders, f \in Fees, cp \in CustomPathsInputs :
          rotate_keyset(u, i, o, f, cp) /\ UNCHANGED manager_vars /\ UNCHANGED mint_vars
    \/ \E k \in KeysetIdentifierInputs : get_keyset_info_call(k) /\ UNCHANGED manager_vars /\ UNCHANGED mint_vars

KeysetInfoSpec == Init /\ [][KeysetInfoNext]_vars

(* C38: get_keyset_info(Unit(u)) returns the stored info of the active keyset
   of u, the keyset of the latest rotate_keyset for u when u was rotated since
   the construction, and fails with UnsupportedUnit when u has no active
   keyset; get_keyset_info(Id(id)) returns the info stored for id and fails
   with UnknownKeySet when none is stored. *)
C38_GetKeysetInfo ==
    sresult.name = "get_keyset_info" =>
       LET k == sresult.args[1]
       IN  /\ k[1] = "Unit" =>
                IF k[2] \in DOMAIN active_keysets
                THEN /\ sresult.result = Ok(keysets[active_keysets[k[2]]])
                     /\ last_rotation[k[2]] # None =>
                           sresult.result[2].id = last_rotation[k[2]][1].new
                ELSE sresult.result = Err("UnsupportedUnit")
           /\ k[1] = "Id" =>
                IF k[2] \in DOMAIN keysets
                THEN sresult.result = Ok(keysets[k[2]])
                ELSE sresult.result = Err("UnknownKeySet")

\* get_keyset_info(Unit(sat)) was called after sat was rotated to its keyset at
\* index 1, and returned that keyset's info.
C38_Witness ==
    /\ sresult.name = "get_keyset_info"
    /\ sresult.args = << KeysetIdentifier_Unit("sat") >>
    /\ scalls = 2
    /\ last_rotation["sat"] # None
    /\ IsOk(sresult.result)
    /\ sresult.result[2].id = KeysetId(<< 0, 0, 1 >>, 1)
    /\ sresult.result[2].input_fee_ppk = 2
    /\ Cardinality(DOMAIN keysets) = 2
    /\ DOMAIN active_keysets = {"sat"}

(* C39: requests reach the Signatory in queue order. When the signatory is
   called for a request, every request that was accepted into the queue before
   it has had its call already: no request with a smaller id is still waiting
   in a spawned task. *)
C39_QueueOrder ==
    [][ \A r \in spawned :
           r \notin spawned' => \A a \in spawned : a.id >= r.id ]_vars

(* C40: invoice watchers keep running. A watcher task goes from the stream to
   pay_mint_quote_for_request_id for every id and from there back to the
   stream, whatever the call returned; from the end of the stream and from the
   sleep after a failed opening it goes back to select!, where the stream is
   opened again; and it ends only in select!, after a shutdown notification. *)
C40_WatchersKeepRunning ==
    [][ \A b \in Backends :
           /\ watcher.pc[b] = "stream" => watcher'.pc[b] \in {"select", "stream", "pay"}
           /\ watcher.pc[b] = "pay" => watcher'.pc[b] \in {"stream", "pay"}
           /\ watcher.pc[b] = "sleep" => watcher'.pc[b] \in {"select", "sleep"}
           /\ (watcher.pc[b] \notin {"none", "ended"} /\ watcher'.pc[b] \notin {"select", "stream", "sleep", "pay"})
                 => (watcher.pc[b] = "select" /\ watcher.shutdown # "none" /\ watcher'.pc[b] = "ended") ]_vars

====
